---- MODULE Spec2Model ----
(***************************************************************************)
(* bintrim: the scan worker, the foreground loop of App::run, the key      *)
(* handlers of App and the trim worker of App::execute_trim, as one state  *)
(* machine.  Atomic steps are the lock-acquire/mutate/release sections and *)
(* the external commands of the source.                                    *)
(***************************************************************************)
EXTENDS Integers, Sequences, FiniteSets, TLC

\* ------------------------------------------------------------------ bounds
\* longest password the model types into the popup
MaxPwLen == 1
\* number of trim workers the model lets the user start
MaxTrimRuns == 2
\* most entries of /Applications in the scan-only specification
MaxDirLen == 3
\* most architecture blocks of a fat report handed to parse_lipo_output
MaxBlocks == 2
\* most bundles of /Applications in the specification of the list keys
MaxApps == 3
\* most files of Contents/MacOS in the specification of the bundle locator
MaxFiles == 2

\* ------------------------------------------------------------- Option<T>
None == <<>>
Some(x) == <<x>>
IsSome(o) == o # <<>>
Unwrap(o) == o[1]

\* --------------------------------------------------------------- sequences
Range(s) == {s[i] : i \in DOMAIN s}

Min(S) == CHOOSE x \in S : \A y \in S : x <= y

\* the element of a one-element set.  An operator's argument is an
\* expression that is computed again wherever the operator uses it; a
\* variable bound over {e} holds the value of e, computed once:
\* TheOne({F(v) : v \in {e}}) is F(e).
TheOne(S) == CHOOSE x \in S : TRUE

\* ------------------------------------------------------------ String order
\* String::cmp on the names the model uses (byte order of ASCII letters)
NameRank(n) ==
  CASE n = "A" -> 1 [] n = "B" -> 2 [] n = "C" -> 3 [] n = "D" -> 4
    [] n = "E" -> 5 [] n = "G" -> 7 [] n = "M" -> 13 [] n = "N" -> 14
    [] n = "T" -> 20 [] n = "U" -> 21 [] n = "X" -> 24
    [] OTHER -> 99

\* core::cmp::Ordering of a.cmp(b) on names
NameCmp(a, b) ==
  IF NameRank(a) < NameRank(b) THEN "Less"
  ELSE IF NameRank(a) > NameRank(b) THEN "Greater" ELSE "Equal"

\* ------------------------------------------------------------ scanner.rs
\* ArchInfo { cpu_type, size_bytes }
ArchInfo(cpu, size) == [cpu_type |-> cpu, size_bytes |-> size]

\* str::starts_with("arm64") on the architecture names the model uses
StartsWithArm64(cpu) == cpu \in {"arm64", "arm64e"}

has_x86_64(app) ==
  \E i \in DOMAIN app.architectures : app.architectures[i].cpu_type = "x86_64"

has_arm64(app) ==
  \E i \in DOMAIN app.architectures : StartsWithArm64(app.architectures[i].cpu_type)

\* AppInfo::x86_64_size_mb: the size of the first slice named x86_64, if it
\* has one.  The source scales the u64 to f64 megabytes (/ 1024.0 / 1024.0);
\* the model keeps the byte count: below 2^53 the scaling is exact and
\* order-preserving, and every size of the model is below 2^31.
x86_64_size_mb(app) ==
  LET I == {i \in DOMAIN app.architectures :
              app.architectures[i].cpu_type = "x86_64"}
  IN IF I = {} THEN None ELSE app.architectures[Min(I)].size_bytes

\* ---------------------------------------------------------- the file system
\* A line of lipo's text, by what the scanner's string tests see in it:
\*   "architecture"  trimmed line starts with "architecture " (name = the rest)
\*   "size"          trimmed line starts with "size " (num = Some(n) when the
\*                   second word parses as u64, None when it does not)
\*   "not_fat"       contains "is not a fat file"
\*   "non_fat_arch"  contains "Non-fat file" and "is architecture:" (name =
\*                   the trimmed text after it, "" when nothing follows)
\*   "is_arch"       contains "is architecture:" and neither marker phrase
\*                   (name as before)
\*   "other"         none of these
Line(k, name, num) == [k |-> k, name |-> name, num |-> num]
Other == Line("other", "", None)

\* one block of `lipo -detailed_info` for a slice of a fat file
\* (the shape of the test input at scanner.rs:285-291)
\* and, for a slice whose size the tool does not print, scanner.rs:339-341
FatBlock(slice) ==
  IF IsSome(slice.size_bytes)
  THEN << Line("architecture", slice.cpu_type, None), Other, Other, Other, Other,
          Line("size", "", slice.size_bytes), Other >>
  ELSE << Line("architecture", slice.cpu_type, None), Other, Other >>

RECURSIVE FatBlocks(_)
FatBlocks(slices) ==
  IF slices = <<>> THEN <<>> ELSE FatBlock(Head(slices)) \o FatBlocks(Tail(slices))

\* what `lipo -detailed_info <binary>` answers for a binary of the model:
\* a fat file lists its slices; a thin file is reported as non-fat with its
\* architecture; a fat file cut short ("truncated") has its slices listed
\* and then fails, with a message that names an architecture and has no
\* marker; anything else fails with a message that has no marker
LipoDetailedInfo(bin) ==
  CASE bin.format = "fat" ->
         [success |-> TRUE, stderr |-> <<>>,
          stdout |-> <<Other, Other, Other>> \o FatBlocks(bin.slices)]
    [] bin.format = "thin" ->
         [success |-> TRUE, stderr |-> <<>>,
          stdout |-> << Line("not_fat", "", None),
                        Line("non_fat_arch", bin.slices[1].cpu_type, None) >>]
    [] bin.format = "truncated" ->
         [success |-> FALSE,
          stdout |-> <<Other, Other, Other>> \o FatBlocks(bin.slices),
          stderr |-> << Line("is_arch", bin.slices[1].cpu_type, None) >>]
    [] OTHER ->
         [success |-> FALSE, stdout |-> <<>>, stderr |-> <<Other>>]

\* what `lipo -archs <binary>` answers
LipoArchs(bin) ==
  IF bin.format \in {"fat", "thin"}
  THEN [success |-> TRUE, stdout |-> bin.slices[1].cpu_type]
  ELSE [success |-> FALSE, stdout |-> ""]

\* what a successful `lipo <binary> -remove x86_64 -output <binary>` leaves
LipoRemove(bin) ==
  [bin EXCEPT !.slices = SelectSeq(bin.slices, LAMBDA a : a.cpu_type # "x86_64")]

\* ------------------------------------------------- scanner.rs, the parsers
\* the lookahead of parse_lipo_output: j in (i + 1)..min(i + 10, lines.len())
LookaheadEnd == 10

\* the search for the size line begun at the first line of the text
SizeAfterFromStart(lines, i) ==
  LET hi == IF i - 1 + LookaheadEnd < Len(lines) THEN i - 1 + LookaheadEnd
            ELSE Len(lines)
      J == {j \in 1..hi : lines[j].k = "size" /\ IsSome(lines[j].num)}
  IN IF J = {} THEN None ELSE lines[Min(J)].num

\* the search for the size line carried on to the end of the text
SizeAfterToEnd(lines, i) ==
  LET J == {j \in (i + 1)..Len(lines) : lines[j].k = "size" /\ IsSome(lines[j].num)}
  IN IF J = {} THEN None ELSE lines[Min(J)].num

\* first parseable size line among lines[i+1 .. min(i+10, len)-1] (0-based i),
\* here with 1-based index i of the architecture line
SizeAfter(lines, i) ==
  LET hi == IF i - 1 + LookaheadEnd < Len(lines) THEN i - 1 + LookaheadEnd
            ELSE Len(lines)
      J == {j \in (i + 1)..hi : lines[j].k = "size" /\ IsSome(lines[j].num)}
  IN IF J = {} THEN None ELSE lines[Min(J)].num

RECURSIVE ParseFrom(_, _)
ParseFrom(lines, i) ==
  IF i > Len(lines) THEN <<>>
  ELSE (IF lines[i].k = "architecture"
        THEN <<ArchInfo(lines[i].name, SizeAfter(lines, i))>> ELSE <<>>)
       \o ParseFrom(lines, i + 1)

\* Option<Vec<ArchInfo>>
parse_lipo_output(output) ==
  TheOne({ IF architectures = <<>> THEN None ELSE Some(architectures) :
             architectures \in {TheOne({ParseFrom(lines, 1) : lines \in {output}})} })

\* the search for "Non-fat file ... is architecture:" as one phrase
ParseArchOfMarkerLine(stderr) ==
  LET J == {j \in DOMAIN stderr :
              stderr[j].k = "non_fat_arch" /\ stderr[j].name # ""}
  IN IF J = {} THEN None ELSE Some(stderr[Min(J)].name)

\* Option<String>: the first line with a non-empty name after "is architecture:"
parse_architecture_from_stderr(stderr) ==
  LET J == {j \in DOMAIN stderr :
              stderr[j].k \in {"non_fat_arch", "is_arch"} /\ stderr[j].name # ""}
  IN IF J = {} THEN None ELSE Some(stderr[Min(J)].name)

\* extract_single_architecture, output the answer of its `lipo -archs`
\* (success FALSE also when the command could not be run)
ExtractSingle(output, stderr) ==
  LET arch == parse_architecture_from_stderr(stderr)
  IN IF IsSome(arch) THEN Some(<<ArchInfo(Unwrap(arch), None)>>)
     ELSE IF ~output.success THEN None
     ELSE IF output.stdout = "" THEN None
     ELSE Some(<<ArchInfo(output.stdout, None)>>)

extract_single_architecture(bin, stderr) == ExtractSingle(LipoArchs(bin), stderr)

HasMarker(text) == \E j \in DOMAIN text : text[j].k \in {"not_fat", "non_fat_arch"}

\* extract_architectures without the test of the exit status
ExtractParseAnyway(output, archs) ==
  LET output_to_parse == IF output.stdout # <<>> THEN output.stdout ELSE output.stderr
  IN IF HasMarker(output.stdout) \/ HasMarker(output.stderr)
     THEN ExtractSingle(archs, output_to_parse)
     ELSE parse_lipo_output(output.stdout)

\* extract_architectures, output the answer of its `lipo -detailed_info` and
\* archs the answer `lipo -archs` gives when it is asked
ExtractFrom(output, archs) ==
  LET output_to_parse == IF output.stdout # <<>> THEN output.stdout ELSE output.stderr
  IN IF HasMarker(output.stdout) \/ HasMarker(output.stderr)
     THEN ExtractSingle(archs, output_to_parse)
     ELSE IF ~output.success THEN None
     ELSE parse_lipo_output(output.stdout)

extract_architectures(bin) == ExtractFrom(LipoDetailedInfo(bin), LipoArchs(bin))

\* permissions.mode() & 0o111 != 0, the mode as its three octal digits
is_executable(file) == \E d \in DOMAIN file.mode : file.mode[d] % 2 = 1

\* A directory entry of /Applications:
\*   stem, ext   file_stem and extension of its name
\*   is_dir      file_type().is_dir()
\*   macos       None when Contents/MacOS does not exist, else Some(the
\*               files of that directory in read_dir order), each file
\*               [fname, is_file, mode, bin]
\* A binary path is <<stem, fname>>: /Applications/<stem>.app/Contents/MacOS/<fname>
FileNamed(files, fname) == {j \in DOMAIN files : files[j].fname = fname}

\* the search that takes the first executable file before the file named
\* like the bundle
LocateFirstExecutable(entry) ==
  LET files == Unwrap(entry.macos)
      named == FileNamed(files, entry.stem)
      execs == {j \in DOMAIN files : files[j].is_file /\ is_executable(files[j])}
  IN IF execs # {} THEN Some(Min(execs))
     ELSE IF named # {} THEN Some(Min(named))
     ELSE None

\* Option<file index>: the binary analyze_app settles on
LocateBinary(entry) ==
  LET files == Unwrap(entry.macos)
      named == FileNamed(files, entry.stem)
      execs == {j \in DOMAIN files : files[j].is_file /\ is_executable(files[j])}
  IN IF named # {} THEN Some(Min(named))
     ELSE IF execs # {} THEN Some(Min(execs))
     ELSE None

\* Option<path>: the binary_path analyze_app hands to extract_architectures
\* (scanner.rs:123), None when it returns before that call
Introspected(entry) ==
  IF entry.macos = None THEN None
  ELSE LET found == LocateBinary(entry)
       IN IF found = None THEN None
          ELSE Some(<< entry.stem, Unwrap(entry.macos)[Unwrap(found)].fname >>)

\* Option<AppInfo>
analyze_app(entry) ==
  IF entry.macos = None THEN None
  ELSE LET found == LocateBinary(entry)
       IN IF found = None THEN None
          ELSE LET file == Unwrap(entry.macos)[Unwrap(found)]
                   architectures == extract_architectures(file.bin)
               IN IF architectures = None THEN None
                  ELSE Some([name |-> entry.stem,
                             path |-> entry.stem,
                             binary_path |-> <<entry.stem, file.fname>>,
                             architectures |-> Unwrap(architectures),
                             selected |-> FALSE])

\* file_type.is_dir() && path.extension() == Some("app")
IsBundle(entry) == entry.is_dir /\ entry.ext = "app"

\* the scan loop body without the has_arm64 test
ScanPushAnyArch(apps, entry) ==
  LET app_info == analyze_app(entry)
  IN IF IsSome(app_info) THEN Append(apps, Unwrap(app_info)) ELSE apps

\* the body of the scan loop for one entry, after the progress callback:
\* apps with the entry's AppInfo pushed when it has one with an arm64 slice
ScanPush(apps, entry) ==
  TheOne({ IF IsSome(app_info) /\ has_arm64(Unwrap(app_info))
           THEN Append(apps, Unwrap(app_info)) ELSE apps :
             app_info \in {analyze_app(entry)} })

\* ------------------------------------------------------------ slice::sort_by
\* the comparison closures of the source: |a, b| a.name.cmp(&b.name)
\* (scanner.rs:87, main.rs:912) and the size closure of App::sort_apps
ByName(a, b) == NameCmp(a.name, b.name)

\* the size closure with size_a.partial_cmp(&size_b): smaller sizes first
BySizeAscending(a, b) ==
  LET sa == x86_64_size_mb(a)
      sb == x86_64_size_mb(b)
  IN CASE IsSome(sa) /\ IsSome(sb) ->
            (IF Unwrap(sa) < Unwrap(sb) THEN "Less"
             ELSE IF Unwrap(sa) > Unwrap(sb) THEN "Greater" ELSE "Equal")
       [] IsSome(sa) /\ ~IsSome(sb) -> "Less"
       [] ~IsSome(sa) /\ IsSome(sb) -> "Greater"
       [] OTHER -> ByName(a, b)

\* size_b.partial_cmp(&size_a): larger sizes first
BySize(a, b) ==
  LET sa == x86_64_size_mb(a)
      sb == x86_64_size_mb(b)
  IN CASE IsSome(sa) /\ IsSome(sb) ->
            (IF Unwrap(sb) < Unwrap(sa) THEN "Less"
             ELSE IF Unwrap(sb) > Unwrap(sa) THEN "Greater" ELSE "Equal")
       [] IsSome(sa) /\ ~IsSome(sb) -> "Less"
       [] ~IsSome(sa) /\ IsSome(sb) -> "Greater"
       [] OTHER -> ByName(a, b)

Compare(mode, a, b) == IF mode = "Size" THEN BySize(a, b) ELSE ByName(a, b)

RECURSIVE InsertBeforeEqual(_, _, _)
\* the insertion of a sort that is not stable: x goes before its equals
InsertBeforeEqual(x, sorted, mode) ==
  IF sorted = <<>> THEN <<x>>
  ELSE IF Compare(mode, x, sorted[Len(sorted)]) \in {"Less", "Equal"}
       THEN Append(InsertBeforeEqual(x, SubSeq(sorted, 1, Len(sorted) - 1), mode),
                   sorted[Len(sorted)])
       ELSE Append(sorted, x)

RECURSIVE InsertSorted(_, _, _)
\* x goes after every element of the sorted prefix that is not greater
InsertSorted(x, sorted, mode) ==
  IF sorted = <<>> THEN <<x>>
  ELSE IF Compare(mode, x, sorted[Len(sorted)]) = "Less"
       THEN Append(InsertSorted(x, SubSeq(sorted, 1, Len(sorted) - 1), mode),
                   sorted[Len(sorted)])
       ELSE Append(sorted, x)

RECURSIVE SortBy(_, _)
\* a stable sort, as slice::sort_by is
SortBy(s, mode) ==
  IF s = <<>> THEN <<>>
  ELSE InsertSorted(s[Len(s)], SortBy(SubSeq(s, 1, Len(s) - 1), mode), mode)

RECURSIVE ScanLoop(_, _, _)
\* the scan loop from entry index on, without the progress callback
ScanLoop(entries, index, apps) ==
  IF index > Len(entries) THEN apps
  ELSE ScanLoop(entries, index + 1,
                IF IsBundle(entries[index]) THEN ScanPush(apps, entries[index])
                ELSE apps)

\* scan_applications_with_progress(|_, _, _| {}): the whole scan at once
scan_applications(entries) ==
  TheOne({ SortBy(apps, "Alphabetical") : apps \in {ScanLoop(entries, 1, <<>>)} })

\* ------------------------------------------------- the scanned directories
Bin(format, slices) == [format |-> format, slices |-> slices]
File(fname, is_file, mode, bin) ==
  [fname |-> fname, is_file |-> is_file, mode |-> mode, bin |-> bin]
Bundle(stem, files) ==
  [stem |-> stem, ext |-> "app", is_dir |-> TRUE, macos |-> Some(files)]

\* universal binary with both slices (the sizes of scanner.rs:290,297)
EntryA ==
  Bundle("A", << File("A", TRUE, <<7, 5, 5>>,
                      Bin("fat", << ArchInfo("x86_64", Some(9228032)),
                                    ArchInfo("arm64", Some(8804432)) >>)) >>)
\* thin arm64 binary
EntryB ==
  Bundle("B", << File("B", TRUE, <<7, 5, 5>>,
                      Bin("thin", << ArchInfo("arm64", None) >>)) >>)
\* a binary lipo cannot read
EntryC ==
  Bundle("C", << File("C", TRUE, <<7, 5, 5>>, Bin("bad", <<>>)) >>)
\* universal binary that is not named like its bundle, after a plain file
EntryE ==
  Bundle("E", << File("Info", TRUE, <<6, 4, 4>>, Bin("bad", <<>>)),
                 File("e-gui", TRUE, <<7, 5, 5>>,
                      Bin("fat", << ArchInfo("arm64e", Some(4000)),
                                    ArchInfo("x86_64", Some(5000)) >>)) >>)
\* Intel-only universal binary
EntryG ==
  Bundle("G", << File("G", TRUE, <<7, 5, 5>>,
                      Bin("fat", << ArchInfo("x86_64", Some(7000)) >>)) >>)
\* a directory that is no bundle
EntryN == [stem |-> "N", ext |-> "", is_dir |-> TRUE, macos |-> None]
\* universal binary whose x86_64 slice is as large as that of A
EntryD ==
  Bundle("D", << File("D", TRUE, <<7, 5, 5>>,
                      Bin("fat", << ArchInfo("x86_64", Some(9228032)),
                                    ArchInfo("arm64", Some(1000)) >>)) >>)
\* fat binary without an x86_64 slice
EntryM ==
  Bundle("M", << File("M", TRUE, <<7, 5, 5>>,
                      Bin("fat", << ArchInfo("arm64", Some(3000)),
                                    ArchInfo("arm64e", Some(3000)) >>)) >>)
\* universal binary whose report has no size lines (scanner.rs:336-344)
EntryU ==
  Bundle("U", << File("U", TRUE, <<7, 5, 5>>,
                      Bin("fat", << ArchInfo("x86_64", None),
                                    ArchInfo("arm64", None) >>)) >>)
\* universal binary cut short: lipo lists its slices and fails
EntryT ==
  Bundle("T", << File("T", TRUE, <<7, 5, 5>>,
                      Bin("truncated", << ArchInfo("arm64", Some(8804432)),
                                          ArchInfo("x86_64", Some(9228032)) >>)) >>)
\* a bundle whose Contents/MacOS holds no executable
EntryX ==
  Bundle("X", << File("Info", TRUE, <<6, 4, 4>>, Bin("bad", << >>)) >>)

\* the contents of /Applications the model starts from, in read_dir order
Directories ==
  { << EntryA, EntryB, EntryC >>,
    << EntryN, EntryE, EntryA >>,
    << EntryA, EntryN >>,
    << EntryG, EntryB >>,
    << EntryD, EntryA >>,
    << >> }

\* every listing of at most MaxDirLen distinct entries, in every order
Universe ==
  {EntryA, EntryB, EntryC, EntryE, EntryG, EntryN, EntryT, EntryX}
ScanDirectories ==
  UNION { {d \in [1..n -> Universe] : \A i, j \in 1..n : i # j => d[i] # d[j]} :
          n \in 0..MaxDirLen }

\* the directory after a successful strip of the binary at path
StripAt(d, path) ==
  [i \in DOMAIN d |->
     IF d[i].stem = path[1] /\ IsBundle(d[i]) /\ IsSome(d[i].macos)
     THEN [d[i] EXCEPT !.macos =
             Some([j \in DOMAIN Unwrap(d[i].macos) |->
                     IF Unwrap(d[i].macos)[j].fname = path[2]
                     THEN [Unwrap(d[i].macos)[j] EXCEPT !.bin = LipoRemove(@)]
                     ELSE Unwrap(d[i].macos)[j]])]
     ELSE d[i]]

\* lipo can remove x86_64 from the binary at path: it is a fat file with an
\* x86_64 slice and another slice to keep
CanStrip(d, path) ==
  \E i \in DOMAIN d :
    /\ d[i].stem = path[1] /\ IsBundle(d[i]) /\ IsSome(d[i].macos)
    /\ \E j \in DOMAIN Unwrap(d[i].macos) :
         LET f == Unwrap(d[i].macos)[j]
         IN /\ f.fname = path[2]
            /\ f.bin.format = "fat"
            /\ Len(f.bin.slices) > 1
            /\ \E k \in DOMAIN f.bin.slices : f.bin.slices[k].cpu_type = "x86_64"

\* ------------------------------------------------------------------- state
VARIABLES
  \* struct App (main.rs:41-72)
  running, apps, selected_index, state, scan_progress, scan_total,
  trim_progress, trim_total, trim_current, trim_progress_state,
  trim_result_state, password_input, show_non_toggleable, sort_mode,
  \* where the foreground loop of App::run stands: "top" before the polls of
  \* an iteration, "result" between the progress poll and the result poll,
  \* "events" at the event wait
  fg,
  \* the scan worker's shared cells (main.rs:104-105) and its thread
  progress, apps_result, scanT,
  \* the cells of each trim run (main.rs:802-803) and the live trim threads,
  \* by run number
  cells, trimT,
  \* number of trim workers spawned so far
  runs,
  \* /Applications, and the privileged commands the trim workers have
  \* issued since the foreground loop last took a trim result
  dir, cmdlog,
  \* per run (0 is the initial scan): results written to its slot, results
  \* the foreground loop took from it
  writes, takes,
  \* the mutexes a panic of their holder has poisoned (std::sync::Mutex):
  \* lock() on them is Err from then on
  poisoned,
  \* what the model keeps of the last operation, by specification: a parser
  \* called on its own with its input and result, the method the last key
  \* called, the lock the foreground loop last failed to take
  call

appVars ==
  << running, apps, selected_index, state, scan_progress, scan_total,
     trim_progress, trim_total, trim_current, trim_progress_state,
     trim_result_state, password_input, show_non_toggleable, sort_mode >>
scanVars == << progress, apps_result, scanT >>
trimVars == << cells, trimT, runs, cmdlog >>
vars == << appVars, fg, scanVars, trimVars, dir, writes, takes, poisoned, call >>

Runs == 0..MaxTrimRuns
TrimRuns == 1..MaxTrimRuns

\* a run number whose cells are not allocated, whose thread does not exist
NoCell == [live |-> FALSE, progress |-> <<0, 0, "">>, result |-> None]
NoThread == [pc |-> "none", apps_to_trim |-> <<>>, password |-> <<>>, index |-> 0]

\* the trim threads that have not finished
TrimActive == {r \in TrimRuns : trimT[r].pc # "none"}

\* no function is called on its own
NoCall == [op |-> "none"]

\* App::new and the head of App::run up to the spawn of the scan worker,
\* over a directory of D
InitApp(D) ==
  /\ poisoned = {}
  /\ running = TRUE
  /\ apps = <<>>
  /\ selected_index = 0
  /\ state = "Loading"
  /\ scan_progress = 0 /\ scan_total = 0
  /\ trim_progress = 0 /\ trim_total = 0 /\ trim_current = ""
  /\ trim_progress_state = None /\ trim_result_state = None
  /\ password_input = <<>>
  /\ show_non_toggleable = FALSE
  /\ sort_mode = "Size"
  /\ fg = "top"
  /\ progress = <<0, 0>>
  /\ apps_result = None
  /\ scanT = [pc |-> "read_dir", entries |-> <<>>, index |-> 0, apps |-> <<>>]
  /\ cells = [r \in TrimRuns |-> NoCell]
  /\ trimT = [r \in TrimRuns |-> NoThread]
  /\ runs = 0
  /\ dir \in D
  /\ cmdlog = <<>>
  /\ writes = [r \in Runs |-> 0]
  /\ takes = [r \in Runs |-> 0]

InitWith(D) == InitApp(D) /\ call = NoCall

Init == InitWith(Directories)

\* --------------------------------------------------------------- the locks
\* the mutex of the progress cell ("progress") or of the result slot
\* ("result") of run r, 0 the initial scan
Mutex(kind, r) == << kind, r >>

\* lock() on the mutex is Ok
LockOk(m) == m \notin poisoned

\* the last failure of a lock() the foreground loop has met, if it has met one
LockFailure(m) == IF LockOk(m) THEN call ELSE [op |-> "lock", failed |-> m]

\* a progress value read with the lock failure taken as zero
ReadOrZero(m, cell, last) == IF LockOk(m) THEN cell ELSE 0

\* if let Ok(p) = lock() { self.field = p.n }: the field after it
ReadIfOk(m, cell, last) == IF LockOk(m) THEN cell ELSE last

\* ------------------------------------------------------- the scan worker
\* fs::read_dir(apps_dir), entries.flatten().collect(), total = entries.len()
ScanReadDir ==
  /\ running /\ scanT.pc = "read_dir"
  /\ scanT' = [scanT EXCEPT !.pc = "iter", !.entries = dir]
  /\ UNCHANGED << appVars, fg, progress, apps_result, trimVars, dir,
                  writes, takes >>
  /\ UNCHANGED << poisoned, call >>

\* a loop turn for an entry that is no .app directory
ScanSkip ==
  /\ running /\ scanT.pc = "iter" /\ scanT.index < Len(scanT.entries)
  /\ ~IsBundle(scanT.entries[scanT.index + 1])
  /\ scanT' = [scanT EXCEPT !.index = @ + 1]
  /\ UNCHANGED << appVars, fg, progress, apps_result, trimVars, dir,
                  writes, takes >>
  /\ UNCHANGED << poisoned, call >>

\* total taken as the number of .app bundles instead of entries.len()
PublishedOverBundles(index, entries) ==
  << index + 1, Cardinality({i \in DOMAIN entries : IsBundle(entries[i])}) >>

\* the pair with the position of the entry before the candidate
PublishedPrevious(index, entries) == << index, Len(entries) >>

\* the pair the scan hands to its callback: (index + 1, total), index the
\* position among all directory entries, total = entries.len()
Published(index, entries) == << index + 1, Len(entries) >>

\* progress_callback(index + 1, total, app_name): the closure of main.rs:110
ScanCallback ==
  /\ running /\ scanT.pc = "iter" /\ scanT.index < Len(scanT.entries)
  /\ IsBundle(scanT.entries[scanT.index + 1])
  /\ progress' = IF LockOk(Mutex("progress", 0))
                 THEN Published(scanT.index, scanT.entries) ELSE progress
  /\ scanT' = [scanT EXCEPT !.pc = "analyze"]
  /\ UNCHANGED << appVars, fg, apps_result, trimVars, dir, writes, takes >>
  /\ UNCHANGED << poisoned, call >>

\* analyze_app and the push of an entry with an arm64 slice
ScanAnalyze ==
  /\ running /\ scanT.pc = "analyze"
  /\ scanT' = [scanT EXCEPT !.pc = "iter", !.index = @ + 1,
                             !.apps = ScanPush(@, scanT.entries[scanT.index + 1])]
  /\ UNCHANGED << appVars, fg, progress, apps_result, trimVars, dir,
                  writes, takes >>
  /\ UNCHANGED << poisoned, call >>

\* the sort by name, the return, and *result = Some(apps) (main.rs:115-117)
ScanDeliver ==
  /\ running /\ scanT.pc = "iter" /\ scanT.index = Len(scanT.entries)
  /\ IF LockOk(Mutex("result", 0))
     THEN /\ apps_result' = Some(SortBy(scanT.apps, "Alphabetical"))
          /\ writes' = [writes EXCEPT ![0] = @ + 1]
     ELSE UNCHANGED << apps_result, writes >>
  /\ scanT' = [scanT EXCEPT !.pc = "done"]
  /\ UNCHANGED << appVars, fg, progress, trimVars, dir, takes >>
  /\ UNCHANGED << poisoned, call >>

\* ------------------------------------------------------------- App, main.rs
Eligible(app) == app.selected /\ has_x86_64(app)

\* index (0-based) of the first app with an x86_64 slice, else dflt:
\* the loops of main.rs:132-137, 167-172, 881-886
FirstPrunable(list, dflt) ==
  LET I == {i \in DOMAIN list : has_x86_64(list[i])}
  IN IF I = {} THEN dflt ELSE Min(I) - 1

\* a sort that rebuilds the entries and loses their selection
SortAndDeselect(list, mode) ==
  SortBy([i \in DOMAIN list |-> [list[i] EXCEPT !.selected = FALSE]], mode)

\* App::sort_apps
sort_apps(list, mode) == SortBy(list, mode)

\* a read of the slot that clones the value and leaves it there
SlotAfterPeek(slot) == slot

\* Option::take leaves None in the slot
SlotAfterTake(slot) == None

\* the test of the navigation loops without the filter
VisibleAnyEntry(i) == TRUE

\* the entry at index next_index is visible in the list
Visible(i) == show_non_toggleable \/ has_x86_64(apps[i + 1])

move_down ==
  LET n == Len(apps)
      found == {offset \in 1..(n - 1) : Visible((selected_index + offset) % n)}
  IN /\ selected_index' = IF n = 0 \/ found = {} THEN selected_index
                           ELSE (selected_index + Min(found)) % n
     /\ UNCHANGED << running, apps, state, scan_progress, scan_total,
                     trim_progress, trim_total, trim_current,
                     trim_progress_state, trim_result_state, password_input,
                     show_non_toggleable, sort_mode, trimVars >>

move_up ==
  LET n == Len(apps)
      found == {offset \in 1..(n - 1) : Visible((selected_index + n - offset) % n)}
  IN /\ selected_index' = IF n = 0 \/ found = {} THEN selected_index
                           ELSE (selected_index + n - Min(found)) % n
     /\ UNCHANGED << running, apps, state, scan_progress, scan_total,
                     trim_progress, trim_total, trim_current,
                     trim_progress_state, trim_result_state, password_input,
                     show_non_toggleable, sort_mode, trimVars >>

\* toggle_selected without the has_x86_64 test
ToggleOneAnyEntry(list, index) ==
  IF index + 1 \in DOMAIN list
  THEN [list EXCEPT ![index + 1].selected = ~@]
  ELSE list

\* the apps after App::toggle_selected
ToggleOne(list, index) ==
  IF index + 1 \in DOMAIN list /\ has_x86_64(list[index + 1])
  THEN [list EXCEPT ![index + 1].selected = ~@]
  ELSE list

toggle_selected ==
  /\ apps' = ToggleOne(apps, selected_index)
  /\ UNCHANGED << running, selected_index, state, scan_progress, scan_total,
                  trim_progress, trim_total, trim_current,
                  trim_progress_state, trim_result_state, password_input,
                  show_non_toggleable, sort_mode, trimVars >>

\* toggle_select_all that deselects as soon as one eligible entry is selected
ToggleAllAnySelected(list) ==
  LET any_selected == \E i \in DOMAIN list : has_x86_64(list[i]) /\ list[i].selected
  IN [i \in DOMAIN list |->
        IF has_x86_64(list[i]) THEN [list[i] EXCEPT !.selected = ~any_selected]
        ELSE list[i]]

\* toggle_select_all that inverts the flag of each eligible entry
ToggleAllInvertEach(list) ==
  [i \in DOMAIN list |->
     IF has_x86_64(list[i]) THEN [list[i] EXCEPT !.selected = ~@] ELSE list[i]]

\* toggle_select_all without the has_x86_64 test in its loop
ToggleAllEveryEntry(list) ==
  LET all_selected == \A i \in DOMAIN list : has_x86_64(list[i]) => list[i].selected
  IN [i \in DOMAIN list |-> [list[i] EXCEPT !.selected = ~all_selected]]

\* the apps after App::toggle_select_all
ToggleAll(list) ==
  LET all_selected == \A i \in DOMAIN list : has_x86_64(list[i]) => list[i].selected
      new_state == ~all_selected
  IN [i \in DOMAIN list |->
        IF has_x86_64(list[i]) THEN [list[i] EXCEPT !.selected = new_state]
        ELSE list[i]]

toggle_select_all ==
  /\ apps' = ToggleAll(apps)
  /\ UNCHANGED << running, selected_index, state, scan_progress, scan_total,
                  trim_progress, trim_total, trim_current,
                  trim_progress_state, trim_result_state, password_input,
                  show_non_toggleable, sort_mode, trimVars >>

\* selected_count without the app.selected test
SelectedCountAnyPrunable(list) ==
  Cardinality({i \in DOMAIN list : has_x86_64(list[i])})

\* selected_count of App::start_trim
SelectedCount(list) == Cardinality({i \in DOMAIN list : Eligible(list[i])})

\* a clear that leaves the buffer as it is
ClearKeeps(buf) == buf

\* String::clear of self.password_input: the buffer after it
clear(buf) == <<>>

start_trim ==
  /\ IF SelectedCount(apps) = 0
     THEN /\ state' = "PopupNoSelection"
          /\ UNCHANGED password_input
     ELSE /\ password_input' = clear(password_input)
          /\ state' = "PopupPasswordInput"
  /\ UNCHANGED << running, apps, selected_index, scan_progress, scan_total,
                  trim_progress, trim_total, trim_current,
                  trim_progress_state, trim_result_state,
                  show_non_toggleable, sort_mode, trimVars >>

\* the entries App::execute_trim captures
AppsToTrim(list) == SelectSeq(list, Eligible)

\* execute_trim without its assignment to self.state
StateLeftAsPopup == "PopupPasswordInput"

\* the state App::execute_trim leaves
StateAfterExecute == "Trimming"

execute_trim ==
  LET r == runs + 1
      apps_to_trim == AppsToTrim(apps)
  IN /\ password_input' = clear(password_input)
     /\ state' = StateAfterExecute
     /\ cells' = [cells EXCEPT ![r] =
                    [live |-> TRUE, result |-> None,
                     progress |-> <<0, Len(apps_to_trim), "">>]]
     /\ trim_progress_state' = Some(r)
     /\ trim_result_state' = Some(r)
     /\ trimT' = [trimT EXCEPT ![r] =
                    [pc |-> "loop", apps_to_trim |-> apps_to_trim,
                     password |-> password_input, index |-> 0]]
     /\ runs' = r
     /\ UNCHANGED << running, apps, selected_index, scan_progress, scan_total,
                     trim_progress, trim_total, trim_current,
                     show_non_toggleable, sort_mode, cmdlog >>

quit ==
  /\ running' = FALSE
  /\ UNCHANGED << apps, selected_index, state, scan_progress, scan_total,
                  trim_progress, trim_total, trim_current,
                  trim_progress_state, trim_result_state, password_input,
                  show_non_toggleable, sort_mode, trimVars >>

toggle_visibility ==
  /\ show_non_toggleable' = ~show_non_toggleable
  /\ selected_index' = IF ~show_non_toggleable' THEN FirstPrunable(apps, 0) ELSE 0
  /\ UNCHANGED << running, apps, state, scan_progress, scan_total,
                  trim_progress, trim_total, trim_current,
                  trim_progress_state, trim_result_state, password_input,
                  sort_mode, trimVars >>

toggle_sort ==
  /\ sort_mode' = IF sort_mode = "Size" THEN "Alphabetical" ELSE "Size"
  /\ apps' = sort_apps(apps, sort_mode')
  /\ selected_index' = 0
  /\ UNCHANGED << running, state, scan_progress, scan_total,
                  trim_progress, trim_total, trim_current,
                  trim_progress_state, trim_result_state, password_input,
                  show_non_toggleable, trimVars >>

\* a handler arm that does nothing
NoOp == UNCHANGED << appVars, trimVars >>

\* ---------------------------------------------------------------- the keys
\* the key presses the model sends: Ctrl-c is Char('c') with CONTROL, Space
\* is Char(' '), Tab stands for a key no arm names
Keys ==
  { "Esc", "q", "Ctrl-c", "Down", "j", "Up", "k", "Space", "a", "h", "s",
    "Enter", "Backspace", "Tab" }

\* the characters the model types as a password
PasswordKeys == {"q"}

\* KeyCode::Char(c)
IsChar(k) == k \in {"q", "Ctrl-c", "j", "k", "Space", "a", "h", "s"}
CharOf(k) == CASE k = "Ctrl-c" -> "c" [] k = "Space" -> " " [] OTHER -> k

\* the Enter arm without its test
SubmitAlways(pw) == TRUE

\* the test of the Enter arm of the password popup: !password_input.is_empty()
SubmitAllowed(pw) == pw # <<>>

\* the last arm of the match on self.state with the quit keys of the Ready arm
QuitWhileBusy(k) == IF k \in {"Esc", "q", "Ctrl-c"} THEN quit ELSE NoOp

\* the arm `_ => {}` of the match on self.state: Loading and Trimming
OtherStates(k) == NoOp

\* App::on_key_event
on_key_event(k) ==
  CASE state = "Ready" ->
         ( CASE k \in {"Esc", "q", "Ctrl-c"} -> quit
             [] k \in {"Down", "j"} -> move_down
             [] k \in {"Up", "k"} -> move_up
             [] k = "Space" -> toggle_selected
             [] k = "a" -> toggle_select_all
             [] k = "h" -> toggle_visibility
             [] k = "s" -> toggle_sort
             [] k = "Enter" -> start_trim
             [] OTHER -> NoOp )
    [] state = "PopupNoSelection" ->
         IF k \in {"Enter", "Esc"}
         THEN /\ state' = "Ready"
              /\ UNCHANGED << running, apps, selected_index, scan_progress,
                              scan_total, trim_progress, trim_total,
                              trim_current, trim_progress_state,
                              trim_result_state, password_input,
                              show_non_toggleable, sort_mode, trimVars >>
         ELSE NoOp
    [] state = "PopupPasswordInput" ->
         ( CASE IsChar(k) ->
                  /\ password_input' = Append(password_input, CharOf(k))
                  /\ UNCHANGED << running, apps, selected_index, state,
                                  scan_progress, scan_total, trim_progress,
                                  trim_total, trim_current, trim_progress_state,
                                  trim_result_state, show_non_toggleable,
                                  sort_mode, trimVars >>
             [] k = "Backspace" ->
                  /\ password_input' =
                       IF password_input = <<>> THEN <<>>
                       ELSE SubSeq(password_input, 1, Len(password_input) - 1)
                  /\ UNCHANGED << running, apps, selected_index, state,
                                  scan_progress, scan_total, trim_progress,
                                  trim_total, trim_current, trim_progress_state,
                                  trim_result_state, show_non_toggleable,
                                  sort_mode, trimVars >>
             [] k = "Enter" ->
                  IF SubmitAllowed(password_input) THEN execute_trim ELSE NoOp
             [] k = "Esc" ->
                  /\ password_input' = clear(password_input)
                  /\ state' = "Ready"
                  /\ UNCHANGED << running, apps, selected_index,
                                  scan_progress, scan_total, trim_progress,
                                  trim_total, trim_current, trim_progress_state,
                                  trim_result_state, show_non_toggleable,
                                  sort_mode, trimVars >>
             [] OTHER -> NoOp )
    [] OTHER -> OtherStates(k)

\* the key presses the bounds of the model leave room for
WithinBounds(k) ==
  state = "PopupPasswordInput" =>
    /\ IsChar(k) => k \in PasswordKeys /\ Len(password_input) < MaxPwLen
    /\ (k = "Enter" /\ password_input # <<>>) => runs < MaxTrimRuns

\* a foreground that polls with a timeout while loading only, and blocks on
\* the next key press in every other state
PollingWhileLoading(st) == st = "Loading"

\* --------------------------------------------- the foreground loop, App::run
Polling(st) == st \in {"Loading", "Trimming"}

\* main.rs:122-125
FgPollScanProgress ==
  /\ running /\ fg = "top" /\ state = "Loading"
  /\ scan_progress' = ReadIfOk(Mutex("progress", 0), progress[1], scan_progress)
  /\ scan_total' = ReadIfOk(Mutex("progress", 0), progress[2], scan_total)
  /\ fg' = "result"
  /\ call' = LockFailure(Mutex("progress", 0))
  /\ UNCHANGED << running, apps, selected_index, state, trim_progress,
                  trim_total, trim_current, trim_progress_state,
                  trim_result_state, password_input, show_non_toggleable,
                  sort_mode, scanVars, trimVars, dir, writes, takes >>
  /\ UNCHANGED poisoned

\* main.rs:126-139
FgPollScanResult ==
  /\ running /\ fg = "result" /\ state = "Loading"
  /\ fg' = "events"
  /\ call' = LockFailure(Mutex("result", 0))
  /\ IF LockOk(Mutex("result", 0)) /\ IsSome(apps_result)
     THEN /\ apps_result' = SlotAfterTake(apps_result)
          /\ apps' = sort_apps(Unwrap(apps_result), sort_mode)
          /\ selected_index' = FirstPrunable(apps', selected_index)
          /\ state' = "Ready"
          /\ takes' = [takes EXCEPT ![0] = @ + 1]
     ELSE UNCHANGED << apps_result, apps, selected_index, state, takes >>
  /\ UNCHANGED << running, scan_progress, scan_total, trim_progress,
                  trim_total, trim_current, trim_progress_state,
                  trim_result_state, password_input, show_non_toggleable,
                  sort_mode, progress, scanT, trimVars, dir, writes >>
  /\ UNCHANGED poisoned

\* main.rs:142-148
FgPollTrimProgress ==
  /\ running /\ fg = "top" /\ state = "Trimming"
  /\ fg' = "result"
  /\ IF IsSome(trim_progress_state)
     THEN LET r == Unwrap(trim_progress_state)
              p == cells[r].progress
          IN /\ trim_progress' = ReadIfOk(Mutex("progress", r), p[1], trim_progress)
             /\ trim_total' = ReadIfOk(Mutex("progress", r), p[2], trim_total)
             /\ trim_current' = ReadIfOk(Mutex("progress", r), p[3], trim_current)
             /\ call' = LockFailure(Mutex("progress", r))
     ELSE UNCHANGED << trim_progress, trim_total, trim_current, call >>
  /\ UNCHANGED << running, apps, selected_index, state, scan_progress,
                  scan_total, trim_progress_state, trim_result_state,
                  password_input, show_non_toggleable, sort_mode,
                  scanVars, trimVars, dir, writes, takes >>
  /\ UNCHANGED poisoned

\* the new list with the selected flags of the old one merged in by name
ReplaceAppsKeepSelected(old, new) ==
  [i \in DOMAIN new |->
     IF \E j \in DOMAIN old : old[j].name = new[i].name /\ old[j].selected
     THEN [new[i] EXCEPT !.selected = TRUE] ELSE new[i]]

\* self.apps = apps (main.rs:162): the new list, nothing of the old one
ReplaceApps(old, new) == new

\* main.rs:150-183
FgPollTrimResult ==
  /\ running /\ fg = "result" /\ state = "Trimming"
  /\ fg' = "events"
  /\ call' = IF IsSome(trim_result_state)
             THEN LockFailure(Mutex("result", Unwrap(trim_result_state)))
             ELSE call
  /\ LET new_apps ==
           IF /\ IsSome(trim_result_state)
              /\ LockOk(Mutex("result", Unwrap(trim_result_state)))
           THEN cells[Unwrap(trim_result_state)].result ELSE None
     IN IF IsSome(new_apps)
        THEN LET r == Unwrap(trim_result_state)
             IN /\ apps' = sort_apps(ReplaceApps(apps, Unwrap(new_apps)), sort_mode)
                /\ selected_index' = IF ~show_non_toggleable
                                      THEN FirstPrunable(apps', 0) ELSE 0
                /\ state' = "Ready"
                /\ trim_progress_state' = None
                /\ trim_result_state' = None
                /\ cells' = [cells EXCEPT ![r] =
                               IF r \in TrimActive
                               THEN [@ EXCEPT !.result = SlotAfterTake(@)]
                               ELSE NoCell]
                /\ takes' = [takes EXCEPT ![r] = @ + 1]
                /\ cmdlog' = <<>>
        ELSE UNCHANGED << apps, selected_index, state, trim_progress_state,
                          trim_result_state, cells, takes, cmdlog >>
  /\ UNCHANGED << running, scan_progress, scan_total, trim_progress,
                  trim_total, trim_current, password_input,
                  show_non_toggleable, sort_mode, scanVars, trimT, runs,
                  dir, writes >>
  /\ UNCHANGED poisoned

\* main.rs:186-189: poll(50 ms) finds no event
FgTimeout ==
  /\ running /\ fg = "events" /\ Polling(state)
  /\ fg' = "top"
  /\ UNCHANGED << appVars, scanVars, trimVars, dir, writes, takes >>
  /\ UNCHANGED << poisoned, call >>

\* main.rs:186-192, 651-660: a key press is read and handled
KeyPress(k) ==
  /\ running /\ fg = "events"
  /\ WithinBounds(k)
  /\ on_key_event(k)
  /\ fg' = IF Polling(state') THEN "top" ELSE "events"
  /\ UNCHANGED << scanVars, dir, writes, takes, poisoned >>

FgKey(k) == KeyPress(k) /\ UNCHANGED call

\* ------------------------------------- the trim worker, main.rs:811-868
\* main.rs:814-816
TrimPublish(r) ==
  /\ running /\ trimT[r].pc = "loop"
  /\ trimT[r].index < Len(trimT[r].apps_to_trim)
  /\ LET app == trimT[r].apps_to_trim[trimT[r].index + 1]
     IN cells' = [cells EXCEPT ![r].progress =
                    IF LockOk(Mutex("progress", r))
                    THEN << trimT[r].index + 1, Len(trimT[r].apps_to_trim), app.name >>
                    ELSE @]
  /\ trimT' = [trimT EXCEPT ![r].pc = "strip"]
  /\ UNCHANGED << appVars, fg, scanVars, runs, cmdlog, dir, writes, takes >>
  /\ UNCHANGED << poisoned, call >>

\* the outcomes of main.rs:825-847: "spawn_failed" (spawn is Err),
\* "exit_failure" (wait is Err or the status is not success), "success"
StripOutcomes == {"spawn_failed", "exit_failure", "success"}

\* the command of main.rs:825-836
StripCommand(r, app, outcome) ==
  [cmd |-> "strip", run |-> r, arch |-> "x86_64", input |-> app.binary_path,
   output |-> app.binary_path, result |-> outcome]

\* the command of main.rs:850-855
ChownCommand(r, app) ==
  [cmd |-> "chown", run |-> r, arch |-> "", input |-> app.binary_path,
   output |-> app.binary_path, result |-> "ignored"]

\* the ownership restore outside the status.success() test
AfterStripAlwaysChown(outcome) == "chown"

\* the step of the worker after a strip with this outcome
AfterStrip(outcome) == IF outcome = "success" THEN "chown" ELSE "loop"

\* a failed strip that leaves the for loop
IndexAfterFailureBreak(index, len) == len

\* the index of the for loop after an entry whose strip failed: the next entry
IndexAfterFailure(index, len) == index + 1

TrimStrip(r) ==
  /\ running /\ trimT[r].pc = "strip"
  /\ LET app == trimT[r].apps_to_trim[trimT[r].index + 1]
     IN \E outcome \in StripOutcomes :
          /\ outcome = "success" => CanStrip(dir, app.binary_path)
          /\ cmdlog' = Append(cmdlog, StripCommand(r, app, outcome))
          /\ dir' = IF outcome = "success" THEN StripAt(dir, app.binary_path)
                     ELSE dir
          /\ trimT' = [trimT EXCEPT
                         ![r].pc = AfterStrip(outcome),
                         ![r].index =
                           IF AfterStrip(outcome) = "loop"
                           THEN IndexAfterFailure(@, Len(trimT[r].apps_to_trim))
                           ELSE @]
  /\ UNCHANGED << appVars, fg, scanVars, cells, runs, writes, takes >>
  /\ UNCHANGED << poisoned, call >>

TrimChown(r) ==
  /\ running /\ trimT[r].pc = "chown"
  /\ LET app == trimT[r].apps_to_trim[trimT[r].index + 1]
     IN cmdlog' = Append(cmdlog, ChownCommand(r, app))
  /\ trimT' = [trimT EXCEPT ![r].pc = "loop", ![r].index = @ + 1]
  /\ UNCHANGED << appVars, fg, scanVars, cells, runs, dir, writes, takes >>
  /\ UNCHANGED << poisoned, call >>

\* main.rs:863-867: the rescan, *result = Some(new_apps), and the thread ends
TrimRescan(r) ==
  /\ running /\ trimT[r].pc = "loop"
  /\ trimT[r].index = Len(trimT[r].apps_to_trim)
  /\ cells' = [cells EXCEPT ![r] =
                 IF trim_result_state = Some(r) \/ trim_progress_state = Some(r)
                 THEN [@ EXCEPT !.result = IF LockOk(Mutex("result", r))
                                            THEN Some(scan_applications(dir)) ELSE @]
                 ELSE NoCell]
  /\ trimT' = [trimT EXCEPT ![r] = NoThread]
  /\ writes' = [writes EXCEPT ![r] = IF LockOk(Mutex("result", r)) THEN @ + 1 ELSE @]
  /\ UNCHANGED << appVars, fg, scanVars, runs, cmdlog, dir, takes >>
  /\ UNCHANGED << poisoned, call >>

\* ------------------------------------------------------------ specification
Next ==
  \/ ScanReadDir
  \/ ScanSkip
  \/ ScanCallback
  \/ ScanAnalyze
  \/ ScanDeliver
  \/ FgPollScanProgress
  \/ FgPollScanResult
  \/ FgPollTrimProgress
  \/ FgPollTrimResult
  \/ FgTimeout
  \/ \E k \in Keys : FgKey(k)
  \/ \E r \in TrimRuns : TrimPublish(r)
  \/ \E r \in TrimRuns : TrimStrip(r)
  \/ \E r \in TrimRuns : TrimChown(r)
  \/ \E r \in TrimRuns : TrimRescan(r)

Spec == Init /\ [][Next]_vars

\* the initial scan alone, up to the step that takes its result, over every
\* directory of ScanDirectories
InitScan == InitWith(ScanDirectories)

\* a key press while the scan runs
LoadingKey == state = "Loading" /\ \E k \in Keys : FgKey(k)

NextScan ==
  \/ ScanReadDir
  \/ ScanSkip
  \/ ScanCallback
  \/ ScanAnalyze
  \/ ScanDeliver
  \/ FgPollScanProgress
  \/ FgPollScanResult
  \/ FgTimeout
  \/ LoadingKey

SpecScan == InitScan /\ [][NextScan]_vars

\* ------------------------------------------------ the keys of the list
\* the bundles of the directories this specification scans, in an order
\* read_dir may give them
ReadyUniverse == << EntryU, EntryM, EntryE, EntryD, EntryB, EntryA >>

\* every selection of at most MaxApps of them
ReadyDirectories ==
  UNION { { [i \in 1..n |-> ReadyUniverse[pick[i]]] :
            pick \in {f \in [1..n -> DOMAIN ReadyUniverse] :
                        \A i, j \in 1..n : i < j => f[i] < f[j]} } :
          n \in 0..MaxApps }

InitReady == InitWith(ReadyDirectories)

\* the keys of the list; Enter, which leaves the list for a popup, is not
\* pressed
ReadyKeys == Keys \ {"Enter"}

\* toggle_select_all called once (n = 1) or twice (n = 2) with no other key
\* between, first the list the first of the calls found
ToggleAllCalls(c, list) ==
  IF c.op = "toggle_select_all" /\ c.n = 1
  THEN [op |-> "toggle_select_all", n |-> 2, first |-> c.first]
  ELSE [op |-> "toggle_select_all", n |-> 1, first |-> list]

\* the method the Ready arm of on_key_event calls for a key
HandlerOf(k) ==
  CASE k \in {"Esc", "q", "Ctrl-c"} -> "quit"
    [] k \in {"Down", "j"} -> "move_down"
    [] k \in {"Up", "k"} -> "move_up"
    [] k = "Space" -> "toggle_selected"
    [] k = "a" -> "toggle_select_all"
    [] k = "h" -> "toggle_visibility"
    [] k = "s" -> "toggle_sort"
    [] k = "Enter" -> "start_trim"
    [] OTHER -> "none"

\* a key press in Ready; call names the method it called
ReadyKey(k) ==
  /\ state = "Ready"
  /\ KeyPress(k)
  /\ call' = IF k = "a" THEN ToggleAllCalls(call, apps)
             ELSE [op |-> HandlerOf(k)]

NextReady ==
  \/ ScanReadDir
  \/ ScanCallback
  \/ ScanAnalyze
  \/ ScanDeliver
  \/ FgPollScanProgress
  \/ FgPollScanResult
  \/ FgTimeout
  \/ \E k \in ReadyKeys : ReadyKey(k)

SpecReady == InitReady /\ [][NextReady]_vars

\* --------------------------------------- the keys while a worker runs
\* a key press; call keeps the last key pressed in Loading or Trimming, the
\* quit keys by name, until a key is pressed in another state
BusyKey(k) ==
  /\ KeyPress(k)
  /\ call' = IF Polling(state)
             THEN [op |-> "on_key_event", state |-> state,
                   key |-> IF k \in {"Esc", "q", "Ctrl-c"} THEN k ELSE "other"]
             ELSE NoCall

NextBusy ==
  \/ ScanReadDir
  \/ ScanSkip
  \/ ScanCallback
  \/ ScanAnalyze
  \/ ScanDeliver
  \/ FgPollScanProgress
  \/ FgPollScanResult
  \/ FgPollTrimProgress
  \/ FgPollTrimResult
  \/ FgTimeout
  \/ \E k \in Keys : BusyKey(k)
  \/ \E r \in TrimRuns : TrimPublish(r)
  \/ \E r \in TrimRuns : TrimStrip(r)
  \/ \E r \in TrimRuns : TrimChown(r)
  \/ \E r \in TrimRuns : TrimRescan(r)

\* the directories of this specification: a bundle to trim beside a directory
\* that is no bundle, and a bundle the scan drops beside one it keeps
InitBusy == InitWith({<< EntryA, EntryN >>, << EntryG, EntryB >>})

SpecBusy == InitBusy /\ [][NextBusy]_vars

\* ------------------------------------------------- the poisoned locks
\* No statement of the source can panic while it holds a guard, so no action
\* above poisons a mutex.  The if-let-Ok tests of the source are written for
\* a worker that does: these two actions are that worker, which panics
\* inside one of its guarded blocks (main.rs:111-113, 115-117, 814-816,
\* 865-867), poisons the mutex it holds and is gone.
ScanPanics ==
  /\ running /\ scanT.pc = "iter"
  /\ scanT.index < Len(scanT.entries) => IsBundle(scanT.entries[scanT.index + 1])
  /\ LET m == IF scanT.index < Len(scanT.entries)
              THEN Mutex("progress", 0) ELSE Mutex("result", 0)
     IN /\ LockOk(m)
        /\ poisoned' = poisoned \cup {m}
  /\ scanT' = [scanT EXCEPT !.pc = "panicked"]
  /\ UNCHANGED << appVars, fg, progress, apps_result, trimVars, dir,
                  writes, takes, call >>

TrimPanics(r) ==
  /\ running /\ trimT[r].pc = "loop"
  /\ LET m == IF trimT[r].index < Len(trimT[r].apps_to_trim)
              THEN Mutex("progress", r) ELSE Mutex("result", r)
     IN /\ LockOk(m)
        /\ poisoned' = poisoned \cup {m}
  /\ trimT' = [trimT EXCEPT ![r] = NoThread]
  /\ UNCHANGED << appVars, fg, scanVars, cells, runs, cmdlog, dir,
                  writes, takes, call >>

NextLock ==
  \/ ScanReadDir
  \/ ScanSkip
  \/ ScanCallback
  \/ ScanAnalyze
  \/ ScanDeliver
  \/ ScanPanics
  \/ FgPollScanProgress
  \/ FgPollScanResult
  \/ FgPollTrimProgress
  \/ FgPollTrimResult
  \/ FgTimeout
  \/ \E k \in Keys : FgKey(k)
  \/ \E r \in TrimRuns : TrimPublish(r)
  \/ \E r \in TrimRuns : TrimStrip(r)
  \/ \E r \in TrimRuns : TrimChown(r)
  \/ \E r \in TrimRuns : TrimRescan(r)
  \/ \E r \in TrimRuns : TrimPanics(r)

SpecLock == InitBusy /\ [][NextLock]_vars

\* ------------------------------------------- the parsers called on their own
\* A block of a fat report: the line "architecture <name>", gap lines of
\* other fields, the size line (sizeline "number": "size <num>"; "garbled":
\* a size line whose second word is no u64; "absent": none) and the align line
BlockLines(b) ==
  << Line("architecture", b.name, None) >>
  \o [g \in 1..b.gap |-> Other]
  \o (CASE b.sizeline = "number" -> << Line("size", "", Some(b.num)) >>
        [] b.sizeline = "garbled" -> << Line("size", "", None) >>
        [] OTHER -> << >>)
  \o << Other >>

RECURSIVE ReportLines(_)
ReportLines(blocks) ==
  IF blocks = <<>> THEN <<>>
  ELSE BlockLines(Head(blocks)) \o ReportLines(Tail(blocks))

\* the text of `lipo -detailed_info` with these blocks under its three header
\* lines (scanner.rs:282-284)
FatReport(blocks) == << Other, Other, Other >> \o ReportLines(blocks)

\* the blocks the model writes: the sizes of scanner.rs:290,297; the size
\* line right after the architecture line, where the tool puts it (gap 4),
\* and at the last and past the last line the lookahead reads (gap 8, 9)
Blocks ==
  [name : {"x86_64", "arm64"}, gap : {0, 4, 8, 9}, sizeline : {"number"},
   num : {9228032, 8804432}]
  \cup [name : {"x86_64", "arm64"}, gap : {0, 4, 8, 9},
        sizeline : {"garbled", "absent"}, num : {0}]

\* the reports of at most max blocks
FatReports(max) == UNION {[1..n -> Blocks] : n \in 0..max}

\* the texts of a channel of `lipo -detailed_info` the model hands to the
\* extractors
Texts ==
  { << >>, << Other >>, << Line("not_fat", "", None) >>,
    FatReport(<< [name |-> "x86_64", gap |-> 4, sizeline |-> "number",
                  num |-> 9228032] >>) }
  \cup { << Line("not_fat", "", None), Line(k, x, None) >> :
           k \in {"non_fat_arch", "is_arch"}, x \in {"arm64", "x86_64", ""} }
  \cup { << Line("non_fat_arch", "", None), Line("is_arch", x, None) >> :
           x \in {"arm64", "x86_64"} }

\* the answers of `lipo -archs`
ArchsAnswers ==
  { [success |-> FALSE, stdout |-> ""], [success |-> TRUE, stdout |-> ""],
    [success |-> TRUE, stdout |-> "arm64"], [success |-> TRUE, stdout |-> "x86_64"] }

DetailedAnswers == [success : BOOLEAN, stdout : Texts, stderr : Texts]

\* A call: the function (op), the text it is handed (parse_lipo_output:
\* output.stdout, written from blocks or a text without a block, as that of
\* scanner.rs:312; extract_single_architecture:
\* output.stderr), the answers of the commands it runs, and its result
Called(op, blocks, output, archs) ==
  [op |-> op, pc |-> "called", blocks |-> blocks, output |-> output,
   archs |-> archs, result |-> None]

Calls(max) ==
  { Called("parse_lipo_output", bs,
           [success |-> TRUE, stdout |-> FatReport(bs), stderr |-> << >>],
           [success |-> FALSE, stdout |-> ""]) : bs \in FatReports(max) }
  \cup { Called("parse_lipo_output", << >>,
                 [success |-> TRUE, stdout |-> t, stderr |-> << >>],
                 [success |-> FALSE, stdout |-> ""]) :
           t \in {x \in Texts : \A j \in DOMAIN x : x[j].k # "architecture"} }
  \cup { Called("extract_single_architecture", << >>,
                 [success |-> TRUE, stdout |-> << >>, stderr |-> t], a) :
           t \in Texts, a \in ArchsAnswers }
  \cup { Called("extract_architectures", << >>, o, a) :
           o \in DetailedAnswers, a \in ArchsAnswers }

InitParse == InitApp({<< >>}) /\ call \in Calls(MaxBlocks)

\* the call returns: result holds the Option the function answers
Return(r) ==
  /\ call.pc = "called"
  /\ call' = [call EXCEPT !.pc = "returned", !.result = r]
  /\ UNCHANGED << appVars, fg, scanVars, trimVars, dir, writes, takes, poisoned >>

CallParseLipoOutput ==
  call.op = "parse_lipo_output" /\ Return(parse_lipo_output(call.output.stdout))

CallExtractSingle ==
  /\ call.op = "extract_single_architecture"
  /\ Return(ExtractSingle(call.archs, call.output.stderr))

CallExtract ==
  /\ call.op = "extract_architectures"
  /\ Return(ExtractFrom(call.output, call.archs))

NextParse ==
  \/ CallParseLipoOutput
  \/ CallExtractSingle
  \/ CallExtract

SpecParse == InitParse /\ [][NextParse]_vars

\* --------------------------------------------- analyze_app called on its own
\* the entries of Contents/MacOS the model writes: named like the bundle or
\* not; a regular file or a directory; no execute bit, all of them, only the
\* one of others; a universal binary or something lipo cannot read (as a
\* directory is)
MacosFiles(stem) ==
  { File(fname, TRUE, mode, bin) :
      fname \in {stem, "helper", "tool"},
      mode \in {<<6, 4, 4>>, <<7, 5, 5>>, <<6, 4, 1>>},
      bin \in {Bin("fat", << ArchInfo("x86_64", Some(9228032)),
                             ArchInfo("arm64", Some(8804432)) >>),
               Bin("bad", << >>)} }
  \cup { File(fname, FALSE, mode, Bin("bad", << >>)) :
           fname \in {stem, "helper", "tool"},
           mode \in {<<6, 4, 4>>, <<7, 5, 5>>} }

\* the listings of Contents/MacOS of at most max entries, in every order
\* read_dir may give them
MacosListings(stem, max) ==
  UNION { {l \in [1..n -> MacosFiles(stem)] :
             \A i, j \in 1..n : i # j => l[i].fname # l[j].fname} :
          n \in 0..max }

\* the bundles analyze_app is called on: without Contents/MacOS, and with
\* each of the listings
LocateBundles(max) ==
  { [stem |-> "A", ext |-> "app", is_dir |-> TRUE, macos |-> None] }
  \cup { Bundle("A", l) : l \in MacosListings("A", max) }

InitLocate ==
  /\ InitApp({<< >>})
  /\ call \in { [op |-> "analyze_app", pc |-> "called", entry |-> e,
                 result |-> None] : e \in LocateBundles(MaxFiles) }

\* analyze_app returns: result holds the Option<AppInfo> it answers and the
\* path of the `lipo -detailed_info` it has run, if it has run one
CallAnalyzeApp ==
  /\ call.op = "analyze_app"
  /\ Return([info |-> analyze_app(call.entry), lipo |-> Introspected(call.entry)])

NextLocate == CallAnalyzeApp

SpecLocate == InitLocate /\ [][NextLocate]_vars

\* ----------------------------------------------------- the runs to the end
\* The threads are scheduled and the commands they wait for return: a step
\* of a worker that can be taken is taken.  The foreground loop keeps
\* ticking: event::poll returns after 50 ms at the latest (main.rs:186), so a
\* poll of a cell or the end of the wait that can be taken is taken.  No
\* key press is required to happen.
Fairness ==
  /\ WF_vars(ScanReadDir)
  /\ WF_vars(ScanSkip)
  /\ WF_vars(ScanCallback)
  /\ WF_vars(ScanAnalyze)
  /\ WF_vars(ScanDeliver)
  /\ WF_vars(FgPollScanProgress)
  /\ WF_vars(FgPollScanResult)
  /\ WF_vars(FgPollTrimProgress)
  /\ WF_vars(FgPollTrimResult)
  /\ WF_vars(FgTimeout)
  /\ \A r \in TrimRuns :
       /\ WF_vars(TrimPublish(r))
       /\ WF_vars(TrimStrip(r))
       /\ WF_vars(TrimChown(r))
       /\ WF_vars(TrimRescan(r))

SpecLive == InitBusy /\ [][Next]_vars /\ Fairness

\* ------------------------------------------------------------------ claims
\* the entries that are selected and have an x86_64 slice
SelectedEligible(list) ==
  {i \in DOMAIN list :
     list[i].selected
     /\ \E a \in DOMAIN list[i].architectures :
          list[i].architectures[a].cpu_type = "x86_64"}

NoX86(app) ==
  \A a \in DOMAIN app.architectures : app.architectures[a].cpu_type # "x86_64"

\* a trim worker is spawned by this step
WorkerSpawned ==
  \/ runs' # runs
  \/ \E r \in TrimRuns : trimT[r].pc = "none" /\ trimT'[r].pc # "none"

\* C1: in every reachable state no entry of the application list without a
\* slice named exactly x86_64 is selected, and no entry a trim worker has
\* captured lacks that slice.
C1_NonEligibleNeverSelected ==
  /\ \A i \in DOMAIN apps : NoX86(apps[i]) => ~apps[i].selected
  /\ \A r \in TrimRuns :
       \A j \in DOMAIN trimT[r].apps_to_trim : ~NoX86(trimT[r].apps_to_trim[j])

\* C1 witness: a trim is running whose list holds an entry without x86_64
\* beside the selected one, with the non-prunable entries shown.
C1_Witness ==
  /\ state = "Trimming" /\ show_non_toggleable
  /\ \E i \in DOMAIN apps : NoX86(apps[i])
  /\ \E r \in TrimRuns : Len(trimT[r].apps_to_trim) > 0

\* C2: a step enters Trimming or spawns a trim worker only from the password
\* popup with a non-empty password buffer and at least one selected entry
\* with an x86_64 slice; Enter in the popup with an empty buffer changes
\* nothing.
C2_TrimmingEntry ==
  [][ /\ ((state' = "Trimming" /\ state # "Trimming") \/ WorkerSpawned)
         => /\ state = "PopupPasswordInput"
            /\ password_input # <<>>
            /\ SelectedEligible(apps) # {}
      /\ (state = "PopupPasswordInput" /\ password_input = <<>>
          /\ fg = "events" /\ on_key_event("Enter"))
         => UNCHANGED << appVars, trimVars >> ]_vars

\* C2 witness: a trim worker runs with the password and the entries it was
\* handed.
C2_Witness ==
  /\ state = "Trimming"
  /\ \E r \in TrimRuns :
       /\ trimT[r].pc # "none"
       /\ trimT[r].password # <<>>
       /\ trimT[r].apps_to_trim # <<>>

\* C3: Enter in Ready leads to the no-selection popup when no eligible entry
\* is selected and to the password popup with an empty buffer otherwise;
\* the no-selection popup is left only to Ready, Enter and Esc both do so,
\* with the list, the flags and the cursor unchanged; no worker is spawned
\* on the way, only on a submitted credential.
C3_ConfirmationGate ==
  [][ /\ (state = "Ready" /\ state' # "Ready")
         => /\ UNCHANGED << apps, selected_index, trimVars >>
            /\ IF SelectedEligible(apps) = {}
               THEN state' = "PopupNoSelection"
               ELSE state' = "PopupPasswordInput" /\ password_input' = <<>>
      /\ state = "PopupNoSelection"
         => /\ state' \in {"PopupNoSelection", "Ready"}
            /\ UNCHANGED << apps, selected_index, trimVars >>
            /\ (fg = "events" /\ (on_key_event("Enter") \/ on_key_event("Esc")))
               => state' = "Ready"
      /\ WorkerSpawned => state = "PopupPasswordInput" /\ password_input # <<>>
    ]_vars

\* C3 witness: the no-selection popup over a list that has a prunable entry,
\* the cursor off the first entry.
C3_Witness ==
  /\ state = "PopupNoSelection"
  /\ selected_index > 0
  /\ \E i \in DOMAIN apps : ~NoX86(apps[i])

\* the result slot of run r (0 is the initial scan)
SlotOf(r) == IF r = 0 THEN apps_result ELSE cells[r].result

\* C4: each run writes its slot at most once, the foreground loop takes
\* each written result at most once and only after it was written, a taken
\* slot is empty, a written result stays in its slot until it is taken, and
\* outside Loading and Trimming every run started so far has been taken
\* exactly once.
C4_ExactlyOnce ==
  /\ \A r \in Runs :
       /\ writes[r] <= 1
       /\ takes[r] <= writes[r]
       /\ takes[r] >= 1 => SlotOf(r) = None
       /\ (writes[r] = 1 /\ takes[r] = 0) => SlotOf(r) # None
  /\ (running /\ state \notin {"Loading", "Trimming"})
       => \A r \in 0..runs : takes[r] = 1

\* C4 witness: the scan result and the result of a trim run have both been
\* taken.
C4_Witness == takes[0] = 1 /\ \E r \in TrimRuns : takes[r] = 1

\* the threads that have been spawned and have not finished
LiveWorkers ==
  (IF scanT.pc # "done" THEN {0} ELSE {}) \cup {r \in TrimRuns : trimT[r].pc # "none"}

\* C5: at most one worker is alive; while a trim worker is alive the scan
\* worker has finished and its result has been taken, and so has the result
\* of every earlier trim run.
C5_OneWorker ==
  /\ Cardinality(LiveWorkers) <= 1
  /\ \A r \in LiveWorkers \ {0} : \A q \in 0..(r - 1) : takes[q] = 1

\* C5 witness: the second trim worker is alive.
C5_Witness == trimT[2].pc # "none"

\* C6: completed never exceeds total and never decreases, in the shared
\* progress cell of the scan and in the values the foreground loop has read.
C6_ScanProgressMonotone ==
  /\ [](progress[1] <= progress[2] /\ scan_progress <= scan_total)
  /\ [][progress'[1] >= progress[1] /\ scan_progress' >= scan_progress]_vars

\* C6 witness: the foreground loop has read a progress strictly between 0
\* and total from a directory that holds an entry that is no bundle.
C6_Witness ==
  /\ 1 < scan_progress /\ scan_progress < scan_total
  /\ \E i \in DOMAIN dir : ~IsBundle(dir[i])

HasArm64Slice(archs) ==
  \E a \in DOMAIN archs : archs[a].cpu_type \in {"arm64", "arm64e"}

\* the bundles of a directory a scan has to keep
Kept(entries) ==
  {i \in DOMAIN entries :
     /\ entries[i].is_dir /\ entries[i].ext = "app"
     /\ IsSome(entries[i].macos)
     /\ IsSome(LocateBinary(entries[i]))
     /\ LET file == Unwrap(entries[i].macos)[Unwrap(LocateBinary(entries[i]))]
        IN /\ IsSome(extract_architectures(file.bin))
           /\ HasArm64Slice(Unwrap(extract_architectures(file.bin)))}

\* res holds one unselected entry per kept bundle of entries and no other
ExactlyKept(res, entries) ==
  /\ Len(res) = Cardinality(Kept(entries))
  /\ {res[i].name : i \in DOMAIN res} = {entries[i].stem : i \in Kept(entries)}
  /\ \A i \in DOMAIN res : ~res[i].selected /\ HasArm64Slice(res[i].architectures)

\* C7: a scan result (of the initial scan or of a rescan) holds exactly the
\* bundles whose executable was found, whose architectures were extracted
\* and that have an arm64 slice, each unselected; for the directory A, B, C
\* it is A, B with only A prunable.
C7_ScanResult ==
  /\ \A r \in Runs : IsSome(SlotOf(r)) => ExactlyKept(Unwrap(SlotOf(r)), dir)
  /\ (IsSome(apps_result) /\ dir = << EntryA, EntryB, EntryC >>)
       => /\ [i \in DOMAIN Unwrap(apps_result) |-> Unwrap(apps_result)[i].name]
               = << "A", "B" >>
          /\ ~NoX86(Unwrap(apps_result)[1])
          /\ NoX86(Unwrap(apps_result)[2])

\* C7 witness: the scan of the directory A, B, C has delivered two entries.
C7_Witness ==
  /\ dir = << EntryA, EntryB, EntryC >>
  /\ IsSome(apps_result) /\ Len(Unwrap(apps_result)) = 2

\* C8: by the time a run has written its result every captured entry has
\* had its strip; every strip names x86_64 and writes to the path it reads, which is
\* the binary of an entry selected and prunable when the credential was
\* submitted; an ownership restore directly follows a successful strip of
\* the same path and nothing else, and a successful strip is followed by
\* the restore of its path.
C8_StripThenChown ==
  /\ \A r \in TrimRuns :
       (trim_result_state = Some(r) /\ writes[r] = 1)
       => \A j \in SelectedEligible(apps) :
            \E i \in DOMAIN cmdlog :
              cmdlog[i].cmd = "strip" /\ cmdlog[i].input = apps[j].binary_path
  /\ \A i \in DOMAIN cmdlog :
    LET c == cmdlog[i]
    IN /\ \E j \in SelectedEligible(apps) : apps[j].binary_path = c.input
       /\ c.cmd = "strip" => c.arch = "x86_64" /\ c.output = c.input
       /\ c.cmd = "chown"
            => /\ i > 1
               /\ cmdlog[i - 1].cmd = "strip"
               /\ cmdlog[i - 1].result = "success"
               /\ cmdlog[i - 1].input = c.input
       /\ (c.cmd = "strip" /\ c.result = "success")
            => IF i < Len(cmdlog)
               THEN cmdlog[i + 1].cmd = "chown" /\ cmdlog[i + 1].input = c.input
               ELSE trimT[c.run].pc = "chown"

\* C8 witness: a run in which one strip failed and another succeeded and was
\* followed by its ownership restore.
C8_Witness ==
  /\ \E i \in DOMAIN cmdlog : cmdlog[i].cmd = "chown"
  /\ \E i \in DOMAIN cmdlog : cmdlog[i].result = "exit_failure"

StripsOf(r) == SelectSeq(cmdlog, LAMBDA c : c.cmd = "strip" /\ c.run = r)

\* the entries of the list that are selected and prunable, in list order
Captured == SelectSeq(apps, LAMBDA a : a.selected /\ ~NoX86(a))

\* C9: the strips of a run are attempts on the captured entries, one each,
\* in capture order, whatever their outcomes; the worker is always at the
\* entry after its last attempt; and once the run has written its result
\* every captured entry has had its attempt and the result is the scan of
\* the directory as the strips left it.
C9_FailuresDoNotAbort ==
  \A r \in TrimRuns :
    trim_result_state = Some(r)
    => /\ Len(StripsOf(r)) <= Len(Captured)
       /\ \A i \in DOMAIN StripsOf(r) :
            StripsOf(r)[i].input = Captured[i].binary_path
       /\ trimT[r].pc # "none"
            => Len(StripsOf(r)) =
                 trimT[r].index + (IF trimT[r].pc = "chown" THEN 1 ELSE 0)
       /\ writes[r] = 1
            => /\ Len(StripsOf(r)) = Len(Captured)
               /\ IsSome(SlotOf(r))
               /\ ExactlyKept(Unwrap(SlotOf(r)), dir)

\* C9 witness: a run of two entries has written its result after the strip
\* of its first entry could not be spawned and the second exited with failure.
C9_Witness ==
  \E r \in TrimRuns :
    /\ writes[r] = 1 /\ IsSome(SlotOf(r))
    /\ Len(StripsOf(r)) = 2
    /\ StripsOf(r)[1].result = "spawn_failed"
    /\ StripsOf(r)[2].result = "exit_failure"

\* C10: the step that takes a trim result leaves as the list exactly the
\* entries of that result, ordered by the active sort mode, every one
\* unselected, and the state Ready.
C10_ListReplaced ==
  [][ \A r \in TrimRuns :
        takes'[r] # takes[r]
        => LET res == Unwrap(cells[r].result)
           IN /\ state' = "Ready"
              /\ Len(apps') = Len(res)
              /\ Range(apps') = Range(res)
              /\ \A i \in DOMAIN apps' : ~apps'[i].selected
              /\ \A i, j \in DOMAIN apps' :
                   i < j => Compare(sort_mode, apps'[j], apps'[i]) # "Less"
    ]_vars

\* C10 witness: back in Ready after a trim result was taken, the list has
\* entries and none of them is prunable or selected any more.
C10_Witness ==
  /\ state = "Ready" /\ apps # <<>>
  /\ \E r \in TrimRuns : takes[r] = 1
  /\ \A i \in DOMAIN apps : NoX86(apps[i]) /\ ~apps[i].selected

\* the slices an Option<Vec<ArchInfo>> holds
Slices(result) == IF result = None THEN << >> ELSE Unwrap(result)

\* the block has its size line, with an integer, among the nine lines after
\* its architecture line
WellFormed(b) == b.sizeline = "number" /\ b.gap < 9

\* C11: parse_lipo_output, on a fat report whose N blocks are all
\* well-formed, answers N slices in block order, each with the name of its
\* block's architecture line and the integer of its block's size line.
C11_FatBlocksParsed ==
  ( /\ call.op = "parse_lipo_output" /\ call.pc = "returned"
    /\ \A i \in DOMAIN call.blocks : WellFormed(call.blocks[i]) )
  => LET got == Slices(call.result)
     IN /\ Len(got) = Len(call.blocks)
        /\ \A i \in DOMAIN call.blocks :
             /\ got[i].cpu_type = call.blocks[i].name
             /\ got[i].size_bytes = Some(call.blocks[i].num)

\* C11 witness: the parser has returned from a report of an x86_64 block and
\* an arm64 block of different sizes, the size line of the first on the last
\* line the lookahead reads.
C11_Witness ==
  /\ call.op = "parse_lipo_output" /\ call.pc = "returned"
  /\ Len(call.blocks) = 2
  /\ \A i \in DOMAIN call.blocks : WellFormed(call.blocks[i])
  /\ call.blocks[1].name = "x86_64" /\ call.blocks[2].name = "arm64"
  /\ call.blocks[1].gap = 8
  /\ call.blocks[1].num # call.blocks[2].num
  /\ Len(Slices(call.result)) = 2

\* the lines of a text with a name after "is architecture:"
ArchLines(text) ==
  {j \in DOMAIN text : text[j].k \in {"non_fat_arch", "is_arch"} /\ text[j].name # ""}

\* the text carries "is not a fat file" or "Non-fat file"
Marked(text) == \E j \in DOMAIN text : text[j].k \in {"not_fat", "non_fat_arch"}

\* one slice named as the first line of ArchLines(text) names it, of unknown size
OneSliceOf(text) ==
  Some(<< [cpu_type |-> text[Min(ArchLines(text))].name, size_bytes |-> None] >>)

\* C12: extract_single_architecture, handed a text with a line
\* "is architecture: X", answers exactly one slice named X of unknown size,
\* whatever X and whatever `lipo -archs` would say; so does
\* extract_architectures on a descriptor output that carries a non-fat marker
\* and that line on one channel, the other empty; and whenever the descriptor
\* output carries a non-fat marker the result, if there is one, is a single
\* slice of unknown size.
C12_NonFatOneSlice ==
  call.pc = "returned" =>
    /\ (call.op = "extract_single_architecture" /\ ArchLines(call.output.stderr) # {})
         => call.result = OneSliceOf(call.output.stderr)
    /\ call.op = "extract_architectures" =>
         LET out == call.output.stdout
             err == call.output.stderr
         IN /\ (err = << >> /\ Marked(out) /\ ArchLines(out) # {})
                 => call.result = OneSliceOf(out)
            /\ (out = << >> /\ Marked(err) /\ ArchLines(err) # {})
                 => call.result = OneSliceOf(err)
            /\ (Marked(out) \/ Marked(err))
                 => \/ call.result = None
                    \/ /\ Len(Unwrap(call.result)) = 1
                       /\ Unwrap(call.result)[1].size_bytes = None

\* C12 witness: extract_architectures has returned the x86_64 slice of the
\* report of scanner.rs:328, which came on standard error from a failed
\* command, while `lipo -archs` would have answered arm64.
C12_Witness ==
  /\ call.op = "extract_architectures" /\ call.pc = "returned"
  /\ ~call.output.success /\ call.output.stdout = << >>
  /\ call.output.stderr =
       << Line("not_fat", "", None), Line("non_fat_arch", "x86_64", None) >>
  /\ call.archs.stdout = "arm64"
  /\ call.result = Some(<< [cpu_type |-> "x86_64", size_bytes |-> None] >>)

\* the entries of a list with an x86_64 slice
Prunable(list) == {i \in DOMAIN list : ~NoX86(list[i])}

\* C13 as stated: after two toggle-alls in succession every eligible entry
\* has the selected flag it had before the first.
C13_ToggleAllSelfInverse ==
  (call.op = "toggle_select_all" /\ call.n = 2)
  => \A i \in Prunable(call.first) : apps[i].selected = call.first[i].selected

\* C13 amended: two toggle-alls in succession return every eligible entry's
\* flag to its value before the first when the eligible entries were all
\* selected or all unselected before it; from any other selection they leave
\* every eligible entry unselected.  The other entries, and the order, are as
\* before.
C13_ToggleAllTwice ==
  (call.op = "toggle_select_all" /\ call.n = 2)
  => LET first == call.first
         uniform == \A i, j \in Prunable(first) :
                      first[i].selected = first[j].selected
     IN /\ DOMAIN apps = DOMAIN first
        /\ \A i \in DOMAIN first :
             apps[i] = [first[i] EXCEPT !.selected =
                          IF i \in Prunable(first) /\ ~uniform THEN FALSE ELSE @]

\* C13 witness: toggle-all has run twice from a list with a selected and an
\* unselected eligible entry.
C13_Witness ==
  /\ call.op = "toggle_select_all" /\ call.n = 2
  /\ \E i, j \in Prunable(call.first) :
       call.first[i].selected /\ ~call.first[j].selected

\* the step is a call of toggle_select_all
ToggleAllStep == call' # call /\ call'.op = "toggle_select_all"

\* C14: toggle-all gives every eligible entry the flag "not all eligible
\* entries are selected" and leaves every other entry, and the order, as they
\* are: with an unselected eligible entry it selects all eligible entries,
\* with all selected it deselects them, with no eligible entry it changes
\* nothing.
C14_ToggleAll ==
  [][ ToggleAllStep =>
        LET all == \A i \in Prunable(apps) : apps[i].selected
        IN /\ apps' = [i \in DOMAIN apps |->
                         IF i \in Prunable(apps)
                         THEN [apps[i] EXCEPT !.selected = ~all] ELSE apps[i]]
           /\ (\E i \in Prunable(apps) : ~apps[i].selected)
                => \A i \in Prunable(apps) : apps'[i].selected
           /\ all => \A i \in Prunable(apps) : ~apps'[i].selected
           /\ Prunable(apps) = {} => apps' = apps
           /\ \A i \in DOMAIN apps \ Prunable(apps) :
                apps'[i].selected = apps[i].selected
    ]_vars

\* C14 witness: toggle-all has selected every eligible entry of a list that
\* had a selected and an unselected one beside an entry without x86_64.
C14_Witness ==
  /\ call.op = "toggle_select_all" /\ call.n = 1
  /\ \E i, j \in Prunable(call.first) :
       call.first[i].selected /\ ~call.first[j].selected
  /\ Prunable(apps) # DOMAIN apps
  /\ \A i \in Prunable(apps) : apps[i].selected

\* C15: toggle-one changes no flag when the entry under the cursor has no
\* x86_64 slice or the list is empty; otherwise it inverts the flag of that
\* entry and of no other; the entries, their order and the cursor are as
\* before.
C15_ToggleOne ==
  [][ call'.op = "toggle_selected" =>
        /\ selected_index' = selected_index
        /\ DOMAIN apps' = DOMAIN apps
        /\ \A i \in DOMAIN apps :
             apps'[i] = IF i = selected_index + 1 /\ ~NoX86(apps[i])
                        THEN [apps[i] EXCEPT !.selected = ~apps[i].selected]
                        ELSE apps[i]
    ]_vars

\* C15 witness: toggle-one has just run with the cursor on an entry without
\* x86_64, in a list where an earlier toggle-one selected another entry.
C15_Witness ==
  /\ call.op = "toggle_selected"
  /\ selected_index + 1 \in DOMAIN apps
  /\ NoX86(apps[selected_index + 1]) /\ ~apps[selected_index + 1].selected
  /\ \E i, j \in Prunable(apps) : apps[i].selected /\ ~apps[j].selected

\* the x86_64 slices of an entry whose size is known
SizedX86(app) ==
  {a \in DOMAIN app.architectures :
     /\ app.architectures[a].cpu_type = "x86_64"
     /\ app.architectures[a].size_bytes # None}

\* the entry has an x86_64 slice of known size, and that size
SizeKnown(app) == SizedX86(app) # {}
SizeOf(app) == app.architectures[Min(SizedX86(app))].size_bytes[1]

\* the names of a list, in its order
Names(list) == [i \in DOMAIN list |-> list[i].name]

\* C16: a list sorted in size mode has no entry of known x86_64 size after
\* an entry whose x86_64 size is unknown or that has no x86_64 slice, and its
\* entries of known size are in non-increasing order of size.
C16_SizeOrder ==
  sort_mode = "Size" =>
    \A i, j \in DOMAIN apps :
      (i < j /\ SizeKnown(apps[j]))
      => SizeKnown(apps[i]) /\ SizeOf(apps[i]) >= SizeOf(apps[j])

\* C16 witness: the sort key has put the list B, D, E back into size order:
\* D (9228032), E (5000), then B, which has no x86_64 slice.
C16_Witness ==
  /\ call.op = "toggle_sort" /\ sort_mode = "Size"
  /\ Names(apps) = << "D", "E", "B" >>

\* C17 as stated: in a list sorted in size mode every entry without an
\* x86_64 slice comes after every entry with one, the x86_64 entries of
\* unknown size after those of known size, and the entries without x86_64 are
\* in order of name.
C17_NoX86Last ==
  sort_mode = "Size" =>
    \A i, j \in DOMAIN apps :
      i < j =>
        /\ NoX86(apps[i]) => NoX86(apps[j])
        /\ SizeKnown(apps[j]) => SizeKnown(apps[i])
        /\ (NoX86(apps[i]) /\ NoX86(apps[j]))
             => NameRank(apps[i].name) < NameRank(apps[j].name)

\* the positions (from 0) of the entries the filter shows
View ==
  {i \in 0..(Len(apps) - 1) : show_non_toggleable \/ ~NoX86(apps[i + 1])}

\* the last position of a set of positions
Last(S) == CHOOSE x \in S : \A y \in S : y <= x

\* steps from position a forward to position b around a list of n entries
Ahead(a, b, n) == (b - a + n) % n

\* the cursor after the step is the shown entry other than the one under the
\* cursor that is nearest in the direction ("down": forward), if there
\* is one, and is where it was if there is none
MovedTo(direction) ==
  LET n == Len(apps)
      others == View \ {selected_index}
      Steps(i) == IF direction = "down" THEN Ahead(selected_index, i, n)
                  ELSE Ahead(i, selected_index, n)
  IN IF others = {} THEN selected_index' = selected_index
     ELSE /\ selected_index' \in others
          /\ \A i \in others : Steps(selected_index') <= Steps(i)

\* C18: move_down puts the cursor on the next shown entry in storage order
\* and move_up on the previous one, from the last shown entry to the first
\* and from the first to the last; with no shown entry, or none but the one
\* under the cursor, the cursor stays; the cursor never moves onto a hidden
\* entry, and the list is as before.
C18_Navigation ==
  [][ /\ call'.op = "move_down" =>
           /\ MovedTo("down")
           /\ (View # {} /\ selected_index = Last(View))
                => selected_index' = Min(View)
      /\ call'.op = "move_up" =>
           /\ MovedTo("up")
           /\ (View # {} /\ selected_index = Min(View))
                => selected_index' = Last(View)
      /\ call'.op \in {"move_down", "move_up"} =>
           /\ selected_index' # selected_index => selected_index' \in View
           /\ UNCHANGED << apps, show_non_toggleable, sort_mode, state >>
    ]_vars

\* C18 witness: with the entries without x86_64 hidden and one of them in
\* the list, move_down has put the cursor on the first of several shown
\* entries, which is not the first entry of the list.
C18_Witness ==
  /\ call.op = "move_down" /\ ~show_non_toggleable
  /\ Cardinality(View) >= 2
  /\ selected_index = Min(View) /\ selected_index > 0

\* C19: in Loading and in Trimming a step at the event wait, a key press
\* among them, changes nothing of the application; the application keeps
\* running; the state is left only for Ready, by the step of the foreground
\* loop that takes a result the worker of that phase has written; and a
\* worker ends only by writing its result.
C19_NoCancellation ==
  [][ /\ Polling(state) =>
           /\ fg = "events" => UNCHANGED appVars
           /\ running' = running
           /\ state' # state =>
                LET r == IF state = "Loading" THEN 0 ELSE Unwrap(trim_result_state)
                IN /\ state' = "Ready" /\ fg = "result"
                   /\ writes[r] = 1 /\ IsSome(SlotOf(r))
                   /\ takes[r] = 0 /\ takes'[r] = 1
      /\ (scanT.pc # "done" /\ scanT'.pc = "done") => writes'[0] = writes[0] + 1
      /\ \A r \in TrimRuns :
           (trimT[r].pc # "none" /\ trimT'[r].pc = "none")
           => writes'[r] = writes[r] + 1
    ]_vars

\* C19 witness: Ctrl-c was the last key pressed while the worker of a trim
\* was about to restore the ownership of a binary, and the trim goes on.
C19_Witness ==
  /\ call.op = "on_key_event" /\ call.state = "Trimming" /\ call.key = "Ctrl-c"
  /\ running /\ state = "Trimming"
  /\ \E r \in TrimRuns : trimT[r].pc = "chown"

\* the mutex of the cell (kind "progress" or "result") the foreground loop
\* locks in the phase it is in
PhaseMutex(kind) ==
  << kind, IF state = "Loading" THEN 0
           ELSE IF kind = "progress" THEN Unwrap(trim_progress_state)
           ELSE Unwrap(trim_result_state) >>

\* C20: a poll of the foreground loop whose lock() fails changes nothing of
\* the application (the progress it showed, the list, the state) nor of the
\* cell, raises nothing, so that the loop runs on, and goes on to the next
\* step of the iteration; the wait for events after it leads back to the
\* polls, where the lock is tried again.
C20_LockFailureNoOp ==
  /\ [][ LET progress_fails ==
                /\ Polling(state) /\ fg = "top" /\ fg' = "result"
                /\ PhaseMutex("progress") \in poisoned
              result_fails ==
                /\ Polling(state) /\ fg = "result" /\ fg' = "events"
                /\ PhaseMutex("result") \in poisoned
          IN /\ (progress_fails \/ result_fails)
                  => UNCHANGED << appVars, scanVars, cells >>
             /\ (Polling(state) /\ poisoned # {})
                  => (running' /\ state' = state)
      ]_vars
  /\ []( (running /\ Polling(state) /\ poisoned # {})
          => CASE fg = "top" -> ENABLED (FgPollScanProgress \/ FgPollTrimProgress)
               [] fg = "result" -> ENABLED (FgPollScanResult \/ FgPollTrimResult)
               [] OTHER -> ENABLED FgTimeout )

\* C20 witness: the worker of a trim has panicked with the lock of its
\* progress cell, the foreground loop has met the failure, kept the
\* progress it had read before, and is at its polls again.
C20_Witness ==
  /\ call.op = "lock" /\ call.failed[1] = "progress" /\ call.failed[2] > 0
  /\ running /\ state = "Trimming" /\ fg = "top"
  /\ trim_progress = 1 /\ trim_total = 1

\* the entries of a listing named like the bundle, and its regular files with
\* an execute bit (an odd octal digit of the mode)
NamedLike(files, stem) == {j \in DOMAIN files : files[j].fname = stem}
ExecutableFiles(files) ==
  {j \in DOMAIN files :
     files[j].is_file /\ \E d \in 1..3 : files[j].mode[d] \in {1, 3, 5, 7}}

\* C21: analyze_app hands to `lipo -detailed_info` the entry of Contents/MacOS
\* named like the bundle whenever there is one, whatever executable files
\* stand before it; without one, the first regular file of the listing with
\* an execute bit; and without Contents/MacOS, or with neither candidate, it
\* answers None and runs no command.  The entry it answers carries the path
\* it has handed to lipo.
C21_BundleLocator ==
  (call.op = "analyze_app" /\ call.pc = "returned") =>
    LET e == call.entry
        r == call.result
    IN /\ IF e.macos = None
          THEN r.info = None /\ r.lipo = None
          ELSE LET files == e.macos[1]
                   named == NamedLike(files, e.stem)
                   execs == ExecutableFiles(files)
               IN CASE named # {} -> r.lipo = << << e.stem, e.stem >> >>
                    [] execs # {} ->
                         r.lipo = << << e.stem, files[Min(execs)].fname >> >>
                    [] OTHER -> r.info = None /\ r.lipo = None
       /\ r.info # None => r.info[1].binary_path = r.lipo[1]

\* C21 witness: the binary named like the bundle stands behind another
\* executable file, and analyze_app has answered the entry of the named one.
C21_Witness ==
  /\ call.op = "analyze_app" /\ call.pc = "returned"
  /\ call.entry.macos # None
  /\ Len(call.entry.macos[1]) = 2
  /\ 1 \in ExecutableFiles(call.entry.macos[1])
  /\ call.entry.macos[1][1].bin.format = "fat"
  /\ call.entry.macos[1][2].fname = call.entry.stem
  /\ call.result.info # None
  /\ call.result.info[1].binary_path = << "A", "A" >>

\* the binary of a bundle: the entry of Contents/MacOS named like it, else
\* its first executable file; no index when it has neither
BinaryOf(entry) ==
  LET files == entry.macos[1]
  IN IF NamedLike(files, entry.stem) # {} THEN {Min(NamedLike(files, entry.stem))}
     ELSE IF ExecutableFiles(files) # {} THEN {Min(ExecutableFiles(files))}
     ELSE {}

\* `lipo -detailed_info` of the bundle's binary exits unsuccessfully and
\* neither channel holds a non-fat marker
FailsUnmarked(entry) ==
  /\ entry.is_dir /\ entry.ext = "app" /\ entry.macos # None
  /\ \E j \in BinaryOf(entry) :
       LET o == LipoDetailedInfo(entry.macos[1][j].bin)
       IN ~o.success /\ ~Marked(o.stdout) /\ ~Marked(o.stderr)

\* C22: a bundle whose descriptor command fails with no non-fat marker is in
\* no list of the scan: not in the list the worker collects, not in the
\* result it delivers, not in the list of the application, whatever
\* architecture lines the output of the command holds.
C22_IntrospectionFailure ==
  \A i \in DOMAIN dir :
    FailsUnmarked(dir[i]) =>
      /\ \A j \in DOMAIN scanT.apps : scanT.apps[j].name # dir[i].stem
      /\ \A j \in DOMAIN Slices(apps_result) :
           Slices(apps_result)[j].name # dir[i].stem
      /\ \A j \in DOMAIN apps : apps[j].name # dir[i].stem

\* C22 witness: the scan of T, whose report lists an arm64 and an x86_64
\* slice before the command fails, and of A has delivered A alone.
C22_Witness ==
  /\ dir = << EntryT, EntryA >>
  /\ FailsUnmarked(dir[1])
  /\ state = "Ready"
  /\ Len(apps) = 1 /\ apps[1].name = "A"

\* C23: while the worker looks up and introspects a candidate, the progress
\* cell holds that candidate's (index + 1, total); the worker gets past a
\* bundle only through that lookup, kept or not; and it takes the entries in
\* the order of the listing, one at a time.
C23_ProgressBeforeAnalysis ==
  /\ [](scanT.pc = "analyze" =>
          /\ scanT.index < Len(scanT.entries)
          /\ scanT.entries[scanT.index + 1].is_dir
          /\ scanT.entries[scanT.index + 1].ext = "app"
          /\ progress = << scanT.index + 1, Len(scanT.entries) >>)
  /\ [][ /\ scanT'.index \in {scanT.index, scanT.index + 1}
         /\ scanT'.apps # scanT.apps => scanT.pc = "analyze"
         /\ ( /\ scanT'.index = scanT.index + 1
              /\ scanT.entries[scanT.index + 1].is_dir
              /\ scanT.entries[scanT.index + 1].ext = "app" )
            => scanT.pc = "analyze"
       ]_vars

\* C23 witness: the worker is at the lookup of C, the second entry of three,
\* which the scan drops, with (2, 3) published.
C23_Witness ==
  /\ scanT.pc = "analyze" /\ scanT.index = 1
  /\ scanT.entries[2] = EntryC
  /\ progress = << 2, 3 >>

\* what `lipo -archs` gives as the single slice: its trimmed output when the
\* command succeeds and prints a name
ArchsSlice(archs) ==
  IF archs.success /\ archs.stdout # ""
  THEN Some(<< [cpu_type |-> archs.stdout, size_bytes |-> None] >>)
  ELSE None

\* C24: for a report with a non-fat marker the name is the one of the first
\* usable "is architecture:" line of standard output; with none there, the
\* one of standard error; and only with none on either channel the answer
\* of `lipo -archs`.
C24_StdoutThenStderr ==
  ( /\ call.op = "extract_architectures" /\ call.pc = "returned"
    /\ (Marked(call.output.stdout) \/ Marked(call.output.stderr)) )
  => CASE ArchLines(call.output.stdout) # {} ->
            call.result = OneSliceOf(call.output.stdout)
       [] ArchLines(call.output.stderr) # {} ->
            call.result = OneSliceOf(call.output.stderr)
       [] OTHER -> call.result = ArchsSlice(call.archs)

\* the architecture lines of a text, and the lines the lookahead of the
\* line at i reads: the next nine
ArchitectureLines(lines) == {i \in DOMAIN lines : lines[i].k = "architecture"}
Window(lines, i) == {j \in DOMAIN lines : i < j /\ j <= i + 9}

\* C25: parse_lipo_output answers one slice per architecture line, in line
\* order and with the name of the line, with or without a size line after
\* it; the slice of a line with no parseable size line among the next nine
\* lines has no size; and a text without an architecture line gives None.
C25_SlicePerArchitectureLine ==
  (call.op = "parse_lipo_output" /\ call.pc = "returned") =>
    LET lines == call.output.stdout
        A == ArchitectureLines(lines)
        got == Slices(call.result)
    IN /\ Len(got) = Cardinality(A)
       /\ \A i \in A :
            LET n == Cardinality({j \in A : j <= i})
            IN /\ got[n].cpu_type = lines[i].name
               /\ (\A j \in Window(lines, i) :
                     lines[j].k = "size" => lines[j].num = << >>)
                    => got[n].size_bytes = << >>
       /\ A = {} => call.result = << >>
       /\ A # {} => call.result # << >>

\* C25 witness: the parser has returned two slices from two blocks, the
\* first with its size line past the nine lines and so without a size, the
\* second with no size line at all.
C25_Witness ==
  /\ call.op = "parse_lipo_output" /\ call.pc = "returned"
  /\ Len(call.blocks) = 2
  /\ call.blocks[1].sizeline = "number" /\ call.blocks[1].gap = 9
  /\ call.blocks[2].sizeline = "absent"
  /\ Len(Slices(call.result)) = 2
  /\ Slices(call.result)[1].size_bytes = << >>
  /\ Slices(call.result)[2].size_bytes = << >>

\* the parseable size lines of the block of the architecture line at i: those
\* after it and before the next architecture line
OwnSizeLines(lines, i) ==
  {j \in DOMAIN lines :
     /\ i < j /\ lines[j].k = "size" /\ lines[j].num # << >>
     /\ \A a \in ArchitectureLines(lines) : a > i => j < a}

\* C30: the size of every slice parse_lipo_output answers is the number of a
\* size line of the slice's own block, and the slice of a block without a
\* size line has no size.
C30_SizeFromOwnBlock ==
  (call.op = "parse_lipo_output" /\ call.pc = "returned") =>
    LET lines == call.output.stdout
        A == ArchitectureLines(lines)
        got == Slices(call.result)
    IN \A i \in A :
         LET n == Cardinality({j \in A : j <= i})
         IN \/ got[n].size_bytes = << >>
            \/ \E j \in OwnSizeLines(lines, i) : got[n].size_bytes = lines[j].num

\* list b holds the entries of list a, each as often as a does
Permutation(a, b) ==
  /\ Len(a) = Len(b)
  /\ \A i \in DOMAIN a :
       Cardinality({j \in DOMAIN b : b[j] = a[i]})
         = Cardinality({j \in DOMAIN a : a[j] = a[i]})

\* C26: a navigation key and the filter key leave the list as it is, entry
\* for entry and in its order; the sort key leaves a permutation of it, each
\* entry with the name, slices and selected flag it had.
C26_ViewFrame ==
  [][ state = "Ready" =>
        /\ call'.op \in {"move_down", "move_up", "toggle_visibility"}
             => apps' = apps
        /\ call'.op = "toggle_sort" => Permutation(apps, apps')
    ]_vars

\* C26 witness: the sort key has put B, which has no x86_64 slice, before
\* the selected E, which the size order had first.
C26_Witness ==
  /\ state = "Ready" /\ call.op = "toggle_sort"
  /\ sort_mode = "Alphabetical"
  /\ Names(apps) = << "B", "E" >>
  /\ apps[2].selected

\* the names of the list are in strictly ascending String order
NameAscending(list) ==
  \A i, j \in DOMAIN list : i < j => NameRank(list[i].name) < NameRank(list[j].name)

\* two entries the size order does not tell apart: the same known x86_64
\* size, or none known for either
SizeTie(a, b) ==
  IF SizeKnown(a) /\ SizeKnown(b) THEN SizeOf(a) = SizeOf(b)
  ELSE ~SizeKnown(a) /\ ~SizeKnown(b)

C28_Liveness ==
  /\ (state = "Loading") ~> (state = "Ready")
  /\ (state = "Trimming") ~> (state = "Ready")

\* C28 witness: two trims of A have ended in Ready, the first with a strip
\* that failed, the second with one that removed the x86_64 slice.
C28_Witness ==
  /\ state = "Ready"
  /\ takes[1] = 1 /\ takes[2] = 1
  /\ Names(apps) = << "A" >>
  /\ NoX86(apps[1])


\* C29: in Ready with a shown entry, the cursor is a position of the list and
\* the entry under it is one of the shown entries.
C29_CursorInView ==
  (state = "Ready" /\ View # {}) =>
    /\ selected_index \in 0..(Len(apps) - 1)
    /\ selected_index \in View

\* C31: once the scan of a directory with at least one .app bundle has ended,
\* the pair in its progress cell has completed = total.
C31_ProgressReachesTotal ==
  (scanT.pc = "done" /\ \E i \in DOMAIN scanT.entries : IsBundle(scanT.entries[i]))
    => progress[1] = progress[2]

\* C32: the password buffer is empty in every state but the password popup:
\* it is empty when the popup opens, after Esc, and after the submit that
\* hands the typed password to the worker of the new trim run, which gets
\* what the buffer held at the submit and nothing typed before the popup
\* opened.
C32_PasswordBufferCleared ==
  /\ [](state # "PopupPasswordInput" => password_input = <<>>)
  /\ [][ /\ (state # "PopupPasswordInput" /\ state' = "PopupPasswordInput")
              => password_input' = <<>>
         /\ (state = "PopupPasswordInput" /\ state' # "PopupPasswordInput")
              => /\ password_input' = <<>>
                 /\ state' \in {"Ready", "Trimming"}
         /\ (state = "PopupPasswordInput" /\ state' = "Trimming")
              => /\ password_input # <<>>
                 /\ runs' = runs + 1
                 /\ trimT'[runs'].password = password_input
       ]_vars

\* C32 witness: after a first trim run that took its password, the popup was
\* opened again and a password submitted; the second trim run is under way
\* with that password and the buffer is empty.
C32_Witness ==
  /\ state = "Trimming" /\ runs = 2
  /\ trimT[2].pc # "none" /\ trimT[2].password # <<>>
  /\ password_input = <<>>

====
